---- MODULE Spec2Model ----
(***************************************************************************)
(* Rolling-form feature engine of premier-league-xg.                       *)
(*                                                                         *)
(*  - calculate_team_form / build_complete_features                        *)
(*        (src/src/build_all_features.py): the batch / training path       *)
(*  - calculate_team_features / build_prediction_features /                *)
(*    generate_predictions / main (src/src/predict_upcoming.py): the       *)
(*        live-inference path                                              *)
(*  - prepare_data (src/src/train_model.py): the consumer of the columns   *)
(*  - _get_result (src/src/api_football_collector.py) and                  *)
(*    fetch_match_result (src/track_predictions.py): results from scores   *)
(*  - save_predictions_to_db (src/src/predict_upcoming.py) and             *)
(*    insert_fixtures_to_db (src/src/fetch_upcoming_fixtures.py): upserts  *)
(*  - PredictionTracker (src/track_predictions.py): accuracy tracking      *)
(*  - main / run_command (src/run_daily_tasks.py): the daily pipeline      *)
(*                                                                         *)
(* Numbers: Python floats are modelled as exact rationals <<n, d>> in      *)
(* lowest terms with d > 0; <<0, 0>> is NaN and <<1, 0>> a division by     *)
(* zero.  A cell of a frame or of a table row is a natural number or NULL. *)
(***************************************************************************)
EXTENDS Integers, Sequences, FiniteSets, TLC

VARIABLES
    fixtures_df,      \* the caller's match collection: the frame read from the CSV
    fixtures_table,   \* fixtures LEFT JOIN match_statistics on the day `today`
    today,            \* CURRENT_DATE of the inference run
    tiebreak,         \* how this build's sort orders rows of equal date
    pc,               \* which operations have run
    call,             \* arguments of the operation called on its own, if any
    form,             \* what that call returned
    features_df,      \* DataFrame returned by build_complete_features
    build_log,        \* per processed fixture: the four snapshots and their rows
    pred_features,    \* DataFrame returned by build_prediction_features
    pred_log,         \* per upcoming fixture: the two results and their rows
    predictions,      \* rows of the predictions table
    error,            \* exception raised by the last operation, if any
    daily,            \* main of run_daily_tasks: tasks attempted and exit status
    tracker,          \* the PredictionTracker of a run: its list and counters
    prediction_accuracy   \* rows of the prediction_accuracy table

vars ==
    <<fixtures_df, fixtures_table, today, tiebreak, pc, call, form, features_df, build_log,
      pred_features, pred_log, predictions, error, daily, tracker,
      prediction_accuracy>>

----------------------------------------------------------------------------
(* Cells and numbers *)

\* SQL NULL / Python None / pandas NaN in a cell
NULL == -1

\* what a function returns for "not enough data" (Python None)
None == [none |-> TRUE]

NaN == <<0, 0>>

DivError == <<1, 0>>

Abs(x) == IF x < 0 THEN -x ELSE x

RECURSIVE GCD(_, _)
GCD(a, b) == IF b = 0 THEN a ELSE GCD(b, a % b)

\* the rational n/d in lowest terms
Rat(n, d) ==
    IF d = 0 THEN (IF n = 0 THEN NaN ELSE DivError)
    ELSE LET g == GCD(Abs(n), Abs(d))
             s == IF d < 0 THEN -1 ELSE 1
         IN  <<(s * n) \div g, (s * d) \div g>>

Num(n) == <<n, 1>>

IsNum(a) == a[2] # 0

\* a cell read as a float: a missing cell is NaN
Cell(v) == IF v = NULL THEN NaN ELSE Num(v)

RAdd(a, b) ==
    IF ~IsNum(a) THEN a ELSE IF ~IsNum(b) THEN b
    ELSE Rat(a[1] * b[2] + b[1] * a[2], a[2] * b[2])

RSub(a, b) ==
    IF ~IsNum(a) THEN a ELSE IF ~IsNum(b) THEN b
    ELSE Rat(a[1] * b[2] - b[1] * a[2], a[2] * b[2])

RMul(a, b) ==
    IF ~IsNum(a) THEN a ELSE IF ~IsNum(b) THEN b
    ELSE Rat(a[1] * b[1], a[2] * b[2])

\* Python's a / b: a zero divisor is an error, not a value
RDiv(a, b) ==
    IF ~IsNum(a) THEN a ELSE IF ~IsNum(b) THEN b
    ELSE IF b[1] = 0 THEN DivError
    ELSE Rat(a[1] * b[2], a[2] * b[1])

\* a > b; every comparison with NaN is False
RGt(a, b) == IsNum(a) /\ IsNum(b) /\ a[1] * b[2] > b[1] * a[2]

\* Python's max(a, b)
RMax(a, b) == IF RGt(b, a) THEN b ELSE a

RECURSIVE RSum(_)
RSum(s) == IF s = <<>> THEN Num(0) ELSE RAdd(s[1], RSum(Tail(s)))

\* np.mean of a non-empty list
RMean(s) == RDiv(RSum(s), Num(Len(s)))

----------------------------------------------------------------------------
(* Frames: a frame is a sequence of match rows *)

AS_ANY == "None"
AS_HOME == "True"
AS_AWAY == "False"

\* df[mask]: the rows satisfying the mask, in frame order
RECURSIVE Rows(_, _)
Rows(df, keep) ==
    IF df = <<>> THEN <<>>
    ELSE IF df[1].fixture_id \in keep
         THEN <<df[1]>> \o Rows(Tail(df), keep)
         ELSE Rows(Tail(df), keep)

Ids(df) == {df[i].fixture_id : i \in 1..Len(df)}

\* column == team_id on an id cell: a missing id (NaN) equals nothing
IdEq(v, team_id) == v # NULL /\ team_id # NULL /\ v = team_id

\* a < b on date cells: every comparison with a missing date (NaT) is False
DateLt(a, b) == a # NULL /\ b # NULL /\ a < b

\* the order sort_values puts two date cells in: missing dates go last
SortsBefore(a, b) == a # NULL /\ (b = NULL \/ a < b)

\* place of row x among rows already sorted by date; rows of equal date keep
\* frame order under "stable" and take the opposite order under "reverse"
RECURSIVE InsertByDate(_, _, _)
InsertByDate(sorted, x, tb) ==
    IF sorted = <<>> THEN <<x>>
    ELSE LET last == sorted[Len(sorted)]
             front == SubSeq(sorted, 1, Len(sorted) - 1)
         IN  IF SortsBefore(last.date, x.date)
                \/ (last.date = x.date /\ tb = "stable")
             THEN sorted \o <<x>>
             ELSE InsertByDate(front, x, tb) \o <<last>>

RECURSIVE SortValuesFrom(_, _, _)
SortValuesFrom(acc, df, tb) ==
    IF df = <<>> THEN acc
    ELSE SortValuesFrom(InsertByDate(acc, df[1], tb), Tail(df), tb)

\* df.sort_values('date'): a new frame, ascending by date
sort_values(df, tb) == SortValuesFrom(<<>>, df, tb)

\* faulty variant: df.head(n), the oldest rows
head(df, n) ==
    IF Len(df) <= n THEN df ELSE SubSeq(df, 1, n)

\* df.tail(n)
tail(df, n) ==
    IF Len(df) <= n THEN df ELSE SubSeq(df, Len(df) - n + 1, Len(df))

Reverse(s) == [i \in 1..Len(s) |-> s[Len(s) + 1 - i]]

----------------------------------------------------------------------------
(* calculate_team_form: the form calculator of the batch / training path *)

\* faulty variant: the mask of either role applied whatever as_home is
TeamMatchesEitherRole(df, team_id, as_home) ==
    Rows(df, {df[i].fixture_id : i \in
        {j \in 1..Len(df) :
            IdEq(df[j].home_team_id, team_id) \/ IdEq(df[j].away_team_id, team_id)}})

\* the rows of df in which team_id plays the role asked for
TeamMatches(df, team_id, as_home) ==
    Rows(df, {df[i].fixture_id : i \in
        {j \in 1..Len(df) :
            IF as_home = AS_ANY
            THEN IdEq(df[j].home_team_id, team_id)
                 \/ IdEq(df[j].away_team_id, team_id)
            ELSE IF as_home = AS_HOME
                 THEN IdEq(df[j].home_team_id, team_id)
                 ELSE IdEq(df[j].away_team_id, team_id)}})

\* the local frame `recent`: the last n_games of the team's rows by date
RecentMatches(df, team_id, n_games, as_home, tb) ==
    tail(sort_values(TeamMatches(df, team_id, as_home), tb), n_games)

\* the guard before the aggregation: no snapshot for this frame `recent`
NoForm(recent, n_games) == Len(recent) = 0

\* one statistic of each row of `recent`, seen from team_id's side
ForAgainst(recent, team_id, home_col, away_col) ==
    [i \in 1..Len(recent) |->
        IF IdEq(recent[i].home_team_id, team_id)
        THEN Cell(recent[i][home_col]) ELSE Cell(recent[i][away_col])]

\* faulty variant: the home branch taken for every row, whatever the team's side
OutcomeHomeSide(match, team_id) ==
    IF match.result = "H" THEN "W"
    ELSE IF match.result = "D" THEN "D" ELSE "L"

\* the branch of the loop body that a row takes: "W", "D" or "L"
Outcome(match, team_id) ==
    IF IdEq(match.home_team_id, team_id)
    THEN (IF match.result = "H" THEN "W"
          ELSE IF match.result = "D" THEN "D" ELSE "L")
    ELSE (IF match.result = "A" THEN "W"
          ELSE IF match.result = "D" THEN "D" ELSE "L")

CountOutcome(recent, team_id, o) ==
    Cardinality({i \in 1..Len(recent) : Outcome(recent[i], team_id) = o})

\* x / y * 100 if y > 0 else 0
PctOrZero(x, y) ==
    IF RGt(y, Num(0)) THEN RMul(RDiv(x, y), Num(100)) ELSE Num(0)

\* x / y if y > 0 else 0
RatioOrZero(x, y) == IF RGt(y, Num(0)) THEN RDiv(x, y) ELSE Num(0)

FormFromRecent(recent, team_id) ==
    LET goals_for == ForAgainst(recent, team_id, "home_goals", "away_goals")
        goals_against == ForAgainst(recent, team_id, "away_goals", "home_goals")
        shots_for == ForAgainst(recent, team_id, "home_shots", "away_shots")
        shots_against == ForAgainst(recent, team_id, "away_shots", "home_shots")
        shots_on_target_for ==
            ForAgainst(recent, team_id, "home_shots_on_target", "away_shots_on_target")
        possession ==
            ForAgainst(recent, team_id, "home_possession", "away_possession")
        corners_for == ForAgainst(recent, team_id, "home_corners", "away_corners")
        wins == CountOutcome(recent, team_id, "W")
        draws == CountOutcome(recent, team_id, "D")
        losses == CountOutcome(recent, team_id, "L")
        total_shots == RSum(shots_for)
        total_shots_on_target == RSum(shots_on_target_for)
        total_goals == RSum(goals_for)
        shots_against_total == RSum(shots_against)
    IN  [games_played |-> Len(recent),
         wins |-> wins,
         draws |-> draws,
         losses |-> losses,
         win_pct |-> Rat(wins, Len(recent)),
         avg_goals_for |-> RMean(goals_for),
         avg_goals_against |-> RMean(goals_against),
         avg_shots_for |-> RMean(shots_for),
         avg_shots_against |-> RMean(shots_against),
         avg_shots_on_target_for |-> RMean(shots_on_target_for),
         avg_possession |-> RMean(possession),
         avg_corners_for |-> RMean(corners_for),
         goal_difference |-> RSub(RSum(goals_for), RSum(goals_against)),
         shot_accuracy |-> PctOrZero(total_shots_on_target, total_shots),
         conversion_rate |-> PctOrZero(total_goals, total_shots_on_target),
         defensive_efficiency |->
             RatioOrZero(RSum(goals_against), shots_against_total),
         points |-> (wins * 3) + draws]

\* the totals that the derived metrics divide by, as the function sums them
FormDenominators(recent, team_id) ==
    [total_goals |-> RSum(ForAgainst(recent, team_id, "home_goals", "away_goals")),
     total_shots |-> RSum(ForAgainst(recent, team_id, "home_shots", "away_shots")),
     total_shots_on_target |->
         RSum(ForAgainst(recent, team_id,
                         "home_shots_on_target", "away_shots_on_target")),
     shots_against_total |->
         RSum(ForAgainst(recent, team_id, "away_shots", "home_shots")),
     possession |->
         RSum(ForAgainst(recent, team_id, "home_possession", "away_possession")),
     corners |-> RSum(ForAgainst(recent, team_id, "home_corners", "away_corners"))]

calculate_team_form(df, team_id, n_games, as_home, tb) ==
    LET recent == RecentMatches(df, team_id, n_games, as_home, tb)
    IN  IF NoForm(recent, n_games) THEN None ELSE FormFromRecent(recent, team_id)

----------------------------------------------------------------------------
(* build_complete_features: the feature assembler of the training path *)

\* n_games=5 of the four calls
N_GAMES == 5

\* "Need some history": fixtures with fewer prior matches are not processed
MIN_PRIOR_MATCHES == 10

\* faulty variant: the cutoff taken inclusively: date <= match['date']
PriorMatchesThroughCutoff(df, match) ==
    Rows(df, {df[i].fixture_id : i \in
        {j \in 1..Len(df) :
            DateLt(df[j].date, match.date) \/ df[j].date = match.date}})

\* fixtures_df[fixtures_df['date'] < match['date']]
PriorMatches(df, match) ==
    Rows(df, {df[i].fixture_id : i \in
        {j \in 1..Len(df) : DateLt(df[j].date, match.date)}})

\* all([home_form, home_form_home, away_form, away_form_away])
AllForms(forms) == \A k \in 1..Len(forms) : forms[k] # None

\* the keys of the dict `features`, in the order the literal inserts them
FeatureRowKeys ==
    <<"fixture_id", "date", "season", "home_team", "away_team", "result",
      "home_win_pct_l5", "home_avg_goals_for_l5", "home_avg_goals_against_l5",
      "home_avg_shots_for_l5", "home_avg_possession_l5", "home_win_pct_home_l5",
      "home_avg_goals_for_home_l5",
      "away_win_pct_l5", "away_avg_goals_for_l5", "away_avg_goals_against_l5",
      "away_avg_shots_for_l5", "away_avg_possession_l5", "away_win_pct_away_l5",
      "away_avg_goals_for_away_l5",
      "home_shot_accuracy", "away_shot_accuracy", "shot_accuracy_diff",
      "home_conversion_rate", "away_conversion_rate", "conversion_diff",
      "home_defensive_efficiency", "away_defensive_efficiency", "defensive_diff",
      "home_poss_efficiency", "away_poss_efficiency", "poss_efficiency_diff",
      "home_corner_effectiveness", "away_corner_effectiveness",
      "form_diff", "goal_diff_comparison", "points_diff", "home_advantage",
      "home_attack_vs_away_defense", "away_attack_vs_home_defense",
      "home_recent_points", "away_recent_points">>

\* the dict `features` of one fixture
FeatureRow(match, home_form, home_form_home, away_form, away_form_away) ==
    LET home_poss_efficiency ==
            RatioOrZero(home_form.avg_goals_for, home_form.avg_possession)
        away_poss_efficiency ==
            RatioOrZero(away_form.avg_goals_for, away_form.avg_possession)
    IN  [fixture_id |-> match.fixture_id,
         date |-> match.date,
         season |-> match.season,
         home_team |-> match.home_team,
         away_team |-> match.away_team,
         result |-> match.result,
         home_win_pct_l5 |-> home_form.win_pct,
         home_avg_goals_for_l5 |-> home_form.avg_goals_for,
         home_avg_goals_against_l5 |-> home_form.avg_goals_against,
         home_avg_shots_for_l5 |-> home_form.avg_shots_for,
         home_avg_possession_l5 |-> home_form.avg_possession,
         home_win_pct_home_l5 |-> home_form_home.win_pct,
         home_avg_goals_for_home_l5 |-> home_form_home.avg_goals_for,
         away_win_pct_l5 |-> away_form.win_pct,
         away_avg_goals_for_l5 |-> away_form.avg_goals_for,
         away_avg_goals_against_l5 |-> away_form.avg_goals_against,
         away_avg_shots_for_l5 |-> away_form.avg_shots_for,
         away_avg_possession_l5 |-> away_form.avg_possession,
         away_win_pct_away_l5 |-> away_form_away.win_pct,
         away_avg_goals_for_away_l5 |-> away_form_away.avg_goals_for,
         home_shot_accuracy |-> home_form.shot_accuracy,
         away_shot_accuracy |-> away_form.shot_accuracy,
         shot_accuracy_diff |->
             RSub(home_form.shot_accuracy, away_form.shot_accuracy),
         home_conversion_rate |-> home_form.conversion_rate,
         away_conversion_rate |-> away_form.conversion_rate,
         conversion_diff |->
             RSub(home_form.conversion_rate, away_form.conversion_rate),
         home_defensive_efficiency |-> home_form.defensive_efficiency,
         away_defensive_efficiency |-> away_form.defensive_efficiency,
         defensive_diff |->
             RSub(away_form.defensive_efficiency, home_form.defensive_efficiency),
         home_poss_efficiency |-> home_poss_efficiency,
         away_poss_efficiency |-> away_poss_efficiency,
         poss_efficiency_diff |-> RSub(home_poss_efficiency, away_poss_efficiency),
         home_corner_effectiveness |->
             RatioOrZero(home_form.avg_goals_for, home_form.avg_corners_for),
         away_corner_effectiveness |->
             RatioOrZero(away_form.avg_goals_for, away_form.avg_corners_for),
         form_diff |-> RSub(home_form.win_pct, away_form.win_pct),
         goal_diff_comparison |->
             RSub(home_form.goal_difference, away_form.goal_difference),
         points_diff |-> Num(home_form.points - away_form.points),
         home_advantage |-> RSub(home_form_home.win_pct, away_form_away.win_pct),
         home_attack_vs_away_defense |->
             RSub(home_form.avg_goals_for, away_form.avg_goals_against),
         away_attack_vs_home_defense |->
             RSub(away_form.avg_goals_for, home_form.avg_goals_against),
         home_recent_points |-> Num(home_form.points),
         away_recent_points |-> Num(away_form.points)]

\* one of the four calls of an iteration: the snapshot, with the number of rows
\* of prior_matches that qualify for it and the fixture_ids of its frame `recent`
FormCall(prior_matches, team_id, as_home, tb) ==
    LET recent == RecentMatches(prior_matches, team_id, N_GAMES, as_home, tb)
    IN  [eligible |-> Len(TeamMatches(prior_matches, team_id, as_home)),
         used |-> Ids(recent),
         den |-> FormDenominators(recent, team_id),
         form |-> calculate_team_form(prior_matches, team_id, N_GAMES, as_home, tb)]

\* one iteration of the loop over the sorted frame: what it computed for `match`
\* and the row it appended
BuildIteration(sorted, match, tb) ==
    LET prior_matches == PriorMatches(sorted, match)
        home_form == FormCall(prior_matches, match.home_team_id, AS_ANY, tb)
        home_form_home == FormCall(prior_matches, match.home_team_id, AS_HOME, tb)
        away_form == FormCall(prior_matches, match.away_team_id, AS_ANY, tb)
        away_form_away == FormCall(prior_matches, match.away_team_id, AS_AWAY, tb)
        forms == <<home_form.form, home_form_home.form,
                   away_form.form, away_form_away.form>>
    IN  IF Len(prior_matches) < MIN_PRIOR_MATCHES
        THEN [fixture_id |-> match.fixture_id, processed |-> FALSE]
        ELSE [fixture_id |-> match.fixture_id, processed |-> TRUE,
              date |-> match.date,
              calls |-> <<home_form, home_form_home, away_form, away_form_away>>,
              row |-> IF AllForms(forms)
                      THEN FeatureRow(match, forms[1], forms[2], forms[3], forms[4])
                      ELSE None]

\* pd.DataFrame(list_of_dicts): the columns are the keys of the dicts, in order
DataFrame(dicts, keys) ==
    [columns |-> IF dicts = <<>> THEN <<>> ELSE keys, rows |-> dicts]

RECURSIVE EmittedRows(_)
EmittedRows(log) ==
    IF log = <<>> THEN <<>>
    ELSE IF log[1].processed /\ log[1].row # None
         THEN <<log[1].row>> \o EmittedRows(Tail(log))
         ELSE EmittedRows(Tail(log))

\* faulty variant: the frame sorted in place: sort_values('date', inplace=True)
CallerFrameSortedInPlace(df, tb) == sort_values(df, tb)

\* fixtures_df.sort_values('date').reset_index(drop=True) binds the local name to
\* a new frame; this is what the caller's frame holds afterwards
CallerFrameAfterSort(df, tb) == df

----------------------------------------------------------------------------
(* calculate_team_features: the form calculator of the live-inference path *)

\* lookback=5, the default that build_prediction_features relies on
LOOKBACK == 5

\* "Need at least 3 venue matches"
MIN_VENUE_MATCHES == 3

NO_RESULT == "NULL"

\* WHERE <role> AND f.result IS NOT NULL AND f.date < CURRENT_DATE
QueryWhere(row, team_id, role, current_date) ==
    /\ IF role = AS_ANY
       THEN row.home_team_id = team_id \/ row.away_team_id = team_id
       ELSE IF role = AS_HOME THEN row.home_team_id = team_id
            ELSE row.away_team_id = team_id
    /\ row.result # NO_RESULT
    /\ row.date < current_date

\* ... ORDER BY f.date DESC LIMIT %s: SQL leaves the order of rows of equal date
\* to the executor; tb is the order this execution happens to produce
QueryRecent(table, team_id, role, current_date, limit, tb) ==
    LET hits == Rows(table, {table[i].fixture_id : i \in
                    {j \in 1..Len(table) :
                        QueryWhere(table[j], team_id, role, current_date)}})
        ordered == Reverse(sort_values(hits, tb))
    IN  SubSeq(ordered, 1, IF Len(ordered) < limit THEN Len(ordered) ELSE limit)

\* Python's `x or default` on a cell: None and 0 are both falsy
OrDefault(v, default) == IF v = NULL \/ v = 0 THEN default ELSE v

\* the guard after the queries: "Not enough data"
NotEnoughData(overall_matches, lookback) == Len(overall_matches) < lookback

\* one statistic of each overall row, seen from team_id's side, with its default
ForTeam(matches, team_id, home_col, away_col, default) ==
    [i \in 1..Len(matches) |->
        IF matches[i].home_team_id = team_id
        THEN Num(OrDefault(matches[i][home_col], default))
        ELSE Num(OrDefault(matches[i][away_col], default))]

\* total_goals / total_shots * 100 if total_shots > 0 else 0
InferenceConversionRate(total_goals, total_shots) ==
    PctOrZero(total_goals, total_shots)

\* max(0, 100 - (avg_goals_against / max(avg_goals_for, 0.1) * 100))
InferenceDefensiveEfficiency(avg_goals_for, avg_goals_against) ==
    RMax(Num(0),
         RSub(Num(100),
              RMul(RDiv(avg_goals_against, RMax(avg_goals_for, Rat(1, 10))),
                   Num(100))))

\* (avg_goals_for / max(avg_possession, 1) * 100) if avg_possession > 0 else 0
InferencePossEfficiency(avg_goals_for, avg_possession) ==
    IF RGt(avg_possession, Num(0))
    THEN RMul(RDiv(avg_goals_for, RMax(avg_possession, Num(1))), Num(100))
    ELSE Num(0)

\* faulty variant: a draw adds nothing
MatchPointsWinOnly(match, team_id) ==
    IF match.home_team_id = team_id
    THEN (IF match.result = "H" THEN 3 ELSE 0)
    ELSE (IF match.result = "A" THEN 3 ELSE 0)

\* what one row adds to `points`: 3 in the branch that counts a win, 1 for 'D'
MatchPoints(match, team_id) ==
    IF match.home_team_id = team_id
    THEN (IF match.result = "H" THEN 3 ELSE IF match.result = "D" THEN 1 ELSE 0)
    ELSE (IF match.result = "A" THEN 3 ELSE IF match.result = "D" THEN 1 ELSE 0)

\* `points` after the loop over overall_matches
RECURSIVE PointsAccumulated(_, _)
PointsAccumulated(matches, team_id) ==
    IF matches = <<>> THEN 0
    ELSE MatchPoints(matches[1], team_id) + PointsAccumulated(Tail(matches), team_id)

FeaturesFromMatches(overall_matches, venue_matches, team_id, is_home, lookback) ==
    LET goals_for == ForTeam(overall_matches, team_id, "home_goals", "away_goals", 0)
        goals_against ==
            ForTeam(overall_matches, team_id, "away_goals", "home_goals", 0)
        shots_for == ForTeam(overall_matches, team_id, "home_shots", "away_shots", 0)
        shots_on_target == ForTeam(overall_matches, team_id,
                                   "home_shots_on_target", "away_shots_on_target", 0)
        possession == ForTeam(overall_matches, team_id,
                              "home_possession", "away_possession", 50)
        corners == ForTeam(overall_matches, team_id, "home_corners", "away_corners", 0)
        wins == CountOutcome(overall_matches, team_id, "W")
        points == PointsAccumulated(overall_matches, team_id)
        venue_counted == Len(venue_matches) >= MIN_VENUE_MATCHES
        venue_goals ==
            IF venue_counted
            THEN ForTeam(venue_matches, team_id, "home_goals", "away_goals", 0)
            ELSE <<>>
        venue_wins ==
            IF venue_counted THEN CountOutcome(venue_matches, team_id, "W") ELSE 0
        avg_goals_for == RMean(goals_for)
        avg_goals_against == RMean(goals_against)
        avg_possession == RMean(possession)
        total_shots == RSum(shots_for)
        total_sot == RSum(shots_on_target)
        total_goals == RSum(goals_for)
        total_corners == RSum(corners)
        win_pct == Rat(wins, lookback)
    IN  [win_pct_l5 |-> win_pct,
         avg_goals_for_l5 |-> avg_goals_for,
         avg_goals_against_l5 |-> avg_goals_against,
         avg_shots_for_l5 |-> RMean(shots_for),
         avg_possession_l5 |-> avg_possession,
         win_pct_venue_l5 |->
             IF venue_matches # <<>> THEN Rat(venue_wins, Len(venue_matches))
             ELSE win_pct,
         avg_goals_for_venue_l5 |->
             IF venue_goals # <<>> THEN RMean(venue_goals) ELSE avg_goals_for,
         shot_accuracy |-> PctOrZero(total_sot, total_shots),
         conversion_rate |->
             InferenceConversionRate(total_goals, total_shots),
         defensive_efficiency |->
             InferenceDefensiveEfficiency(avg_goals_for, avg_goals_against),
         poss_efficiency |-> InferencePossEfficiency(avg_goals_for, avg_possession),
         corner_effectiveness |-> PctOrZero(total_goals, total_corners),
         recent_points |-> points]

\* the totals that the derived metrics divide by, as the function sums them (the
\* shots against are not fetched into a list: they are summed here the same way)
FeaturesDenominators(overall_matches, team_id) ==
    [total_goals |->
         RSum(ForTeam(overall_matches, team_id, "home_goals", "away_goals", 0)),
     total_shots |->
         RSum(ForTeam(overall_matches, team_id, "home_shots", "away_shots", 0)),
     total_shots_on_target |->
         RSum(ForTeam(overall_matches, team_id,
                      "home_shots_on_target", "away_shots_on_target", 0)),
     shots_against_total |->
         RSum(ForTeam(overall_matches, team_id, "away_shots", "home_shots", 0)),
     possession |->
         RSum(ForTeam(overall_matches, team_id,
                      "home_possession", "away_possession", 50)),
     corners |->
         RSum(ForTeam(overall_matches, team_id, "home_corners", "away_corners", 0))]

calculate_team_features(table, current_date, team_id, is_home, lookback, tb) ==
    LET overall_matches ==
            QueryRecent(table, team_id, AS_ANY, current_date, lookback, tb[1])
        venue_matches ==
            QueryRecent(table, team_id, IF is_home THEN AS_HOME ELSE AS_AWAY,
                        current_date, lookback, tb[2])
    IN  IF NotEnoughData(overall_matches, lookback) THEN None
        ELSE FeaturesFromMatches(overall_matches, venue_matches, team_id,
                                 is_home, lookback)

----------------------------------------------------------------------------
(* build_prediction_features, generate_predictions, main of predict_upcoming *)

\* INTERVAL '14 days'
UPCOMING_DAYS == 14

\* WHERE date >= CURRENT_DATE AND date <= CURRENT_DATE + INTERVAL '14 days'
\*   AND result IS NULL ORDER BY date
get_upcoming_fixtures(table, current_date, tb) ==
    sort_values(
        Rows(table, {table[i].fixture_id : i \in
            {j \in 1..Len(table) :
                /\ table[j].date >= current_date
                /\ table[j].date <= current_date + UPCOMING_DAYS
                /\ table[j].result = NO_RESULT}}),
        tb)

\* the keys of feature_dict, in the order the literal inserts them
PredictionDictKeys ==
    <<"home_win_pct_l5", "home_avg_goals_for_l5", "home_avg_goals_against_l5",
      "home_avg_shots_for_l5", "home_avg_possession_l5", "home_win_pct_home_l5",
      "home_avg_goals_for_home_l5",
      "away_win_pct_l5", "away_avg_goals_for_l5", "away_avg_goals_against_l5",
      "away_avg_shots_for_l5", "away_avg_possession_l5", "away_win_pct_away_l5",
      "away_avg_goals_for_away_l5",
      "home_shot_accuracy", "away_shot_accuracy", "shot_accuracy_diff",
      "home_conversion_rate", "away_conversion_rate", "conversion_diff",
      "home_defensive_efficiency", "away_defensive_efficiency", "defensive_diff",
      "home_poss_efficiency", "away_poss_efficiency", "poss_efficiency_diff",
      "home_corner_effectiveness", "away_corner_effectiveness",
      "form_diff", "goal_diff_comparison", "points_diff", "home_advantage",
      "home_attack_vs_away_defense", "away_attack_vs_home_defense",
      "home_recent_points", "away_recent_points">>

\* the list expected_cols
expected_cols ==
    <<"home_win_pct_l5", "home_avg_goals_for_l5", "home_avg_goals_against_l5",
      "home_avg_shots_for_l5", "home_avg_possession_l5", "home_win_pct_home_l5",
      "home_avg_goals_for_home_l5", "away_win_pct_l5", "away_avg_goals_for_l5",
      "away_avg_goals_against_l5", "away_avg_shots_for_l5", "away_avg_possession_l5",
      "away_win_pct_away_l5", "away_avg_goals_for_away_l5", "home_shot_accuracy",
      "away_shot_accuracy", "shot_accuracy_diff", "home_conversion_rate",
      "away_conversion_rate", "conversion_diff", "home_defensive_efficiency",
      "away_defensive_efficiency", "defensive_diff", "home_poss_efficiency",
      "away_poss_efficiency", "poss_efficiency_diff", "home_corner_effectiveness",
      "away_corner_effectiveness", "form_diff", "goal_diff_comparison",
      "points_diff", "home_advantage", "home_attack_vs_away_defense",
      "away_attack_vs_home_defense", "home_recent_points", "away_recent_points">>

\* the dict feature_dict of one upcoming fixture
PredictionRow(home_features, away_features) ==
    [home_win_pct_l5 |-> home_features.win_pct_l5,
     home_avg_goals_for_l5 |-> home_features.avg_goals_for_l5,
     home_avg_goals_against_l5 |-> home_features.avg_goals_against_l5,
     home_avg_shots_for_l5 |-> home_features.avg_shots_for_l5,
     home_avg_possession_l5 |-> home_features.avg_possession_l5,
     home_win_pct_home_l5 |-> home_features.win_pct_venue_l5,
     home_avg_goals_for_home_l5 |-> home_features.avg_goals_for_venue_l5,
     away_win_pct_l5 |-> away_features.win_pct_l5,
     away_avg_goals_for_l5 |-> away_features.avg_goals_for_l5,
     away_avg_goals_against_l5 |-> away_features.avg_goals_against_l5,
     away_avg_shots_for_l5 |-> away_features.avg_shots_for_l5,
     away_avg_possession_l5 |-> away_features.avg_possession_l5,
     away_win_pct_away_l5 |-> away_features.win_pct_venue_l5,
     away_avg_goals_for_away_l5 |-> away_features.avg_goals_for_venue_l5,
     home_shot_accuracy |-> home_features.shot_accuracy,
     away_shot_accuracy |-> away_features.shot_accuracy,
     shot_accuracy_diff |->
         RSub(home_features.shot_accuracy, away_features.shot_accuracy),
     home_conversion_rate |-> home_features.conversion_rate,
     away_conversion_rate |-> away_features.conversion_rate,
     conversion_diff |->
         RSub(home_features.conversion_rate, away_features.conversion_rate),
     home_defensive_efficiency |-> home_features.defensive_efficiency,
     away_defensive_efficiency |-> away_features.defensive_efficiency,
     defensive_diff |->
         RSub(home_features.defensive_efficiency, away_features.defensive_efficiency),
     home_poss_efficiency |-> home_features.poss_efficiency,
     away_poss_efficiency |-> away_features.poss_efficiency,
     poss_efficiency_diff |->
         RSub(home_features.poss_efficiency, away_features.poss_efficiency),
     home_corner_effectiveness |-> home_features.corner_effectiveness,
     away_corner_effectiveness |-> away_features.corner_effectiveness,
     form_diff |-> RSub(home_features.win_pct_l5, away_features.win_pct_l5),
     goal_diff_comparison |->
         RSub(home_features.avg_goals_for_l5, away_features.avg_goals_for_l5),
     points_diff |-> Num(home_features.recent_points - away_features.recent_points),
     home_advantage |-> Num(1),
     home_attack_vs_away_defense |->
         RSub(home_features.avg_goals_for_l5, away_features.avg_goals_against_l5),
     away_attack_vs_home_defense |->
         RSub(away_features.avg_goals_for_l5, home_features.avg_goals_against_l5),
     home_recent_points |-> Num(home_features.recent_points),
     away_recent_points |-> Num(away_features.recent_points)]

\* one query of an iteration: how many rows it fetched and their fixture_ids
Fetched(table, current_date, team_id, role, tb) ==
    LET rows == QueryRecent(table, team_id, role, current_date, LOOKBACK, tb)
    IN  [fetched |-> Len(rows), used |-> Ids(rows),
         den |-> FeaturesDenominators(rows, team_id)]

\* one iteration of the loop over the upcoming fixtures; tb is the order the four
\* queries of this iteration produce among rows of equal date
PredictionIteration(table, current_date, fixture, tb) ==
    LET home_features ==
            calculate_team_features(table, current_date, fixture.home_team_id,
                                    TRUE, LOOKBACK, <<tb, tb>>)
        away_features ==
            calculate_team_features(table, current_date, fixture.away_team_id,
                                    FALSE, LOOKBACK, <<tb, tb>>)
    IN  [fixture_id |-> fixture.fixture_id,
         date |-> fixture.date,
         processed |-> TRUE,
         calls |-> <<Fetched(table, current_date, fixture.home_team_id, AS_ANY, tb),
                     Fetched(table, current_date, fixture.home_team_id, AS_HOME, tb),
                     Fetched(table, current_date, fixture.away_team_id, AS_ANY, tb),
                     Fetched(table, current_date, fixture.away_team_id, AS_AWAY, tb)>>,
         results |-> <<home_features, away_features>>,
         row |-> IF home_features = None \/ away_features = None THEN None
                 ELSE PredictionRow(home_features, away_features)]

\* features_df[expected_cols] raises a KeyError unless every column exists
HasColumns(df, cols) ==
    \A c \in 1..Len(cols) : \E k \in 1..Len(df.columns) : df.columns[k] = cols[c]

\* features_df[expected_cols]: the frame with its columns in the order of cols
SelectColumns(df, cols) == [columns |-> cols, rows |-> df.rows]

\* the fitted classifier, a pure function of the feature row: predict_proba, in
\* percent (home, draw, away)
predict_proba(row) ==
    IF RGt(row.form_diff, Num(0)) THEN <<60, 25, 15>>
    ELSE IF RGt(Num(0), row.form_diff) THEN <<20, 30, 50>>
    ELSE <<40, 40, 20>>

\* faulty variant: the last class of highest probability
ArgMaxLast(p) ==
    IF p[3] >= p[1] /\ p[3] >= p[2] THEN "A"
    ELSE IF p[2] >= p[1] THEN "D" ELSE "H"

\* result_mapping[np.argmax(p)]: the first class of highest probability, the
\* classes being H=0, D=1, A=2
ArgMaxLabel(p) ==
    IF p[1] >= p[2] /\ p[1] >= p[3] THEN "H"
    ELSE IF p[2] >= p[3] THEN "D" ELSE "A"

\* model.predict of the three classifiers trained: the argmax of predict_proba
predict(row) == ArgMaxLabel(predict_proba(row))

\* pd.cut(max_probs, bins=[0, 50, 60, 100], labels=['Low', 'Medium', 'High'])
Confidence(max_prob) ==
    IF max_prob > 0 /\ max_prob <= 50 THEN "Low"
    ELSE IF max_prob > 50 /\ max_prob <= 60 THEN "Medium"
    ELSE IF max_prob > 60 /\ max_prob <= 100 THEN "High"
    ELSE "NaN"

Max3(p) ==
    IF p[1] >= p[2] /\ p[1] >= p[3] THEN p[1] ELSE IF p[2] >= p[3] THEN p[2] ELSE p[3]

\* results[col] = <array>: pandas assigns an array by position and raises a
\* ValueError unless it is as long as the frame
LengthMismatch(frame, values) == Len(values) # Len(frame)

\* results = upcoming_fixtures.copy() with the prediction columns assigned by
\* position; features_of records which fixture's features row j was built from
generate_predictions(upcoming_fixtures, rows, sources) ==
    [j \in 1..Len(upcoming_fixtures) |->
        [fixture_id |-> upcoming_fixtures[j].fixture_id,
         home_win_prob |-> predict_proba(rows[j])[1],
         draw_prob |-> predict_proba(rows[j])[2],
         away_win_prob |-> predict_proba(rows[j])[3],
         predicted_result |-> predict(rows[j]),
         confidence |-> Confidence(Max3(predict_proba(rows[j]))),
         features_of |-> sources[j]]]

\* the prediction columns generate_predictions gives a row whose probabilities,
\* in percent, are p
LabelledPrediction(p) ==
    [home_win_prob |-> p[1],
     draw_prob |-> p[2],
     away_win_prob |-> p[3],
     predicted_result |-> ArgMaxLabel(p),
     confidence |-> Confidence(Max3(p))]

\* faulty variant: a plain INSERT into a table without the unique constraint
save_predictions_appending(table, results, prediction_date) ==
    table \union {results[j] @@ [prediction_date |-> prediction_date] :
                     j \in 1..Len(results)}

\* INSERT ... ON CONFLICT (fixture_id, prediction_date) DO UPDATE SET ...
save_predictions_to_db(table, results, prediction_date) ==
    LET new == {results[j] @@ [prediction_date |-> prediction_date] :
                    j \in 1..Len(results)}
    IN  {r \in table :
            ~\E n \in new : n.fixture_id = r.fixture_id
                            /\ n.prediction_date = r.prediction_date}
        \union new

RECURSIVE EmittedSources(_)
EmittedSources(log) ==
    IF log = <<>> THEN <<>>
    ELSE IF log[1].processed /\ log[1].row # None
         THEN <<log[1].fixture_id>> \o EmittedSources(Tail(log))
         ELSE EmittedSources(Tail(log))

----------------------------------------------------------------------------
(* prepare_data of train_model: the columns the classifier is trained on *)

METADATA_COLS == {"fixture_id", "date", "season", "home_team", "away_team", "result"}

\* faulty variant: the target column left among the features
feature_cols_with_target(columns) ==
    SelectSeq(columns, LAMBDA col : col \notin (METADATA_COLS \ {"result"}))

\* feature_cols = [col for col in df.columns if col not in [...]]
feature_cols(columns) ==
    SelectSeq(columns, LAMBDA col : col \notin METADATA_COLS)

----------------------------------------------------------------------------
(* The match histories the operations run on *)

\* number of fixtures of a history
NumFixtures == 13

Teams == 1..3

TeamName(t) == <<"Arsenal", "Chelsea", "Everton">>[t]

Schedules == {"alternate", "one_sided", "newcomer", "round_robin"}

\* <<home_team_id, away_team_id>> of the i-th fixture
Pairing(sched, i) ==
    CASE sched = "alternate" -> IF i % 2 = 1 THEN <<1, 2>> ELSE <<2, 1>>
      [] sched = "one_sided" -> IF i < NumFixtures THEN <<1, 2>> ELSE <<2, 1>>
      [] sched = "newcomer" ->
            IF i = NumFixtures - 2 THEN <<3, 1>>
            ELSE IF i = NumFixtures THEN <<3, 2>>
            ELSE IF i % 2 = 1 THEN <<1, 2>> ELSE <<2, 1>>
      [] OTHER ->
            <<<<1, 2>>, <<3, 1>>, <<2, 3>>, <<2, 1>>, <<1, 3>>, <<3, 2>>>>[(i % 6) + 1]

Datings == {"daily", "paired"}

\* day of the i-th fixture: one fixture a day, or two
DateOf(dating, i) == IF dating = "daily" THEN i ELSE (i + 1) \div 2

Scorings == {"mixed", "goalless"}

\* <<home_goals, away_goals>>
ScoreOf(scoring, i) ==
    IF scoring = "goalless" THEN <<0, 0>>
    ELSE <<<<2, 0>>, <<1, 1>>, <<0, 1>>, <<1, 0>>, <<0, 2>>>>[(i % 5) + 1]

\* faulty variant: level scores given to the home side
GetResultHomeOnLevel(home_goals, away_goals) ==
    IF home_goals >= away_goals THEN "H" ELSE "A"

\* _get_result
GetResult(home_goals, away_goals) ==
    IF home_goals > away_goals THEN "H"
    ELSE IF away_goals > home_goals THEN "A" ELSE "D"

StatsKinds == {"full", "zero", "missing"}

\* the statistics columns of the i-th fixture: recorded, recorded as 0 (what
\* extract_stat gives for a statistic the API leaves out), or not enriched
StatsOf(kind, i) ==
    CASE kind = "full" ->
            [home_shots |-> 4 + (i % 3), away_shots |-> 3 + (i % 2),
             home_shots_on_target |-> 1 + (i % 3), away_shots_on_target |-> i % 2,
             home_possession |-> 50 + (i % 3) * 5,
             away_possession |-> 50 - (i % 3) * 5,
             home_corners |-> i % 4, away_corners |-> 2 + (i % 2)]
      [] kind = "zero" ->
            [home_shots |-> 0, away_shots |-> 0,
             home_shots_on_target |-> 0, away_shots_on_target |-> 0,
             home_possession |-> 0, away_possession |-> 0,
             home_corners |-> 0, away_corners |-> 0]
      [] OTHER ->
            [home_shots |-> NULL, away_shots |-> NULL,
             home_shots_on_target |-> NULL, away_shots_on_target |-> NULL,
             home_possession |-> NULL, away_possession |-> NULL,
             home_corners |-> NULL, away_corners |-> NULL]

\* a finished fixture as get_all_fixtures_by_season and the enrichment record it
MatchRow(i, sched, dating, scoring, kind) ==
    LET score == ScoreOf(scoring, i)
    IN  [fixture_id |-> i,
         date |-> DateOf(dating, i),
         season |-> "2024",
         home_team_id |-> Pairing(sched, i)[1],
         home_team |-> TeamName(Pairing(sched, i)[1]),
         away_team_id |-> Pairing(sched, i)[2],
         away_team |-> TeamName(Pairing(sched, i)[2]),
         home_goals |-> score[1],
         away_goals |-> score[2],
         result |-> GetResult(score[1], score[2])]
        @@ StatsOf(kind, i)

\* the fixture as the fixtures table holds it before it is played
Scheduled(row) ==
    [row EXCEPT !.home_goals = NULL, !.away_goals = NULL, !.result = NO_RESULT,
                !.home_shots = NULL, !.away_shots = NULL,
                !.home_shots_on_target = NULL, !.away_shots_on_target = NULL,
                !.home_possession = NULL, !.away_possession = NULL,
                !.home_corners = NULL, !.away_corners = NULL]

History(sched, dating, scoring, kind) ==
    [i \in 1..NumFixtures |-> MatchRow(i, sched, dating, scoring, kind)]

\* scoring and statistics that occur together
Profiles ==
    {<<"mixed", "full">>, <<"mixed", "zero">>, <<"mixed", "missing">>,
     <<"goalless", "zero">>}

Histories ==
    {History(sched, dating, p[1], p[2]) :
        sched \in Schedules, dating \in Datings, p \in Profiles}

\* the CSV holds the seasons newest first, the API returns them oldest first
FrameOrders(h) == {h, Reverse(h)}

TieBreaks == {"stable", "reverse"}

LastDate(df) ==
    CHOOSE d \in {df[i].date : i \in 1..Len(df)} :
        \A i \in 1..Len(df) : df[i].date <= d

\* fixtures table and match_statistics on the day `current_date`, LEFT JOINed:
\* earlier fixtures are played, later ones scheduled, and of the day's own
\* fixtures those in done_today are already played
TableAt(df, current_date, done_today) ==
    [i \in 1..Len(df) |->
        IF df[i].date < current_date \/ df[i].fixture_id \in done_today
        THEN df[i] ELSE Scheduled(df[i])]

----------------------------------------------------------------------------
(* State machine of the two pipelines *)

EmptyFrame == [columns |-> <<>>, rows |-> <<>>]

\* main of run_daily_tasks before its first task: success_count = 0
NotStarted ==
    [attempted |-> <<>>, outcomes |-> <<>>, returned |-> <<>>,
     success_count |-> 0, exit_status |-> NULL]

\* PredictionTracker.__init__: updated_count = 0, failed_count = 0
NoTracker ==
    [phase |-> "new", predictions |-> <<>>, pos |-> 1,
     updated_count |-> 0, failed_count |-> 0, added |-> 0, last |-> None]

\* days on which the inference run is made
RunDays(h) == {LastDate(h) - 1, LastDate(h)}

InitWith(h) ==
    /\ fixtures_df \in FrameOrders(h)
    /\ tiebreak \in TieBreaks
    /\ today \in RunDays(h)
    /\ \E done_today \in {{}, {h[i].fixture_id : i \in {j \in 1..Len(h) : h[j].date = today}}} :
          fixtures_table = TableAt(h, today, done_today)
    /\ pc = [built |-> FALSE, predicted |-> FALSE]
    /\ call = None
    /\ form = None
    /\ features_df = EmptyFrame
    /\ build_log = <<>>
    /\ pred_features = EmptyFrame
    /\ pred_log = <<>>
    /\ predictions = {}
    /\ error = "none"
    /\ daily = NotStarted
    /\ tracker = NoTracker
    /\ prediction_accuracy = {}

Init == \E h \in Histories : InitWith(h)

\* build_complete_features(fixtures_df), called by main of build_all_features
BuildCompleteFeatures ==
    /\ ~pc.built
    /\ LET sorted == sort_values(fixtures_df, tiebreak)
       IN  build_log' = [idx \in 1..Len(sorted) |->
                            BuildIteration(sorted, sorted[idx], tiebreak)]
    /\ features_df' = DataFrame(EmittedRows(build_log'), FeatureRowKeys)
    /\ fixtures_df' = CallerFrameAfterSort(fixtures_df, tiebreak)
    /\ pc' = [pc EXCEPT !.built = TRUE]
    /\ UNCHANGED <<fixtures_table, today, tiebreak, call, form, pred_features,
                   pred_log, predictions, error,
                   daily, tracker, prediction_accuracy>>

\* main of predict_upcoming: fetch, build features, predict, save; every
\* exception is caught and printed, and nothing is saved
PredictUpcoming ==
    /\ ~pc.predicted
    /\ \E tb \in TieBreaks :
        /\ LET upcoming == get_upcoming_fixtures(fixtures_table, today, tb)
           IN  pred_log' = [j \in 1..Len(upcoming) |->
                   PredictionIteration(fixtures_table, today, upcoming[j], tb)]
        /\ LET upcoming == get_upcoming_fixtures(fixtures_table, today, tb)
               features_list == EmittedRows(pred_log')
               built == DataFrame(features_list, PredictionDictKeys)
               features == SelectColumns(built, expected_cols)
               results == generate_predictions(upcoming, features.rows,
                                               EmittedSources(pred_log'))
           IN  IF Len(upcoming) = 0
                  THEN /\ error' = "none"
                       /\ UNCHANGED <<pred_features, predictions>>
                  ELSE IF ~HasColumns(built, expected_cols)
                  THEN /\ error' = "KeyError"
                       /\ UNCHANGED <<pred_features, predictions>>
                  ELSE IF LengthMismatch(upcoming, features.rows)
                  THEN /\ error' = "ValueError"
                       /\ pred_features' = features
                       /\ UNCHANGED predictions
                  ELSE /\ error' = "none"
                       /\ pred_features' = features
                       /\ predictions' =
                              save_predictions_to_db(predictions, results, today)
    /\ pc' = [pc EXCEPT !.predicted = TRUE]
    /\ UNCHANGED <<fixtures_df, fixtures_table, today, tiebreak, call, form,
                   features_df, build_log,
                   daily, tracker, prediction_accuracy>>

Next == BuildCompleteFeatures \/ PredictUpcoming

Spec == Init /\ [][Next]_vars

----------------------------------------------------------------------------
(* The form calculators called on their own, twice with the same arguments *)

\* largest n_games / lookback a call is made with
MaxGames == 5

VenueFilters == {AS_ANY, AS_HOME, AS_AWAY}

InitForm == \E h \in Histories : InitWith(h) /\ fixtures_df = h

\* calculate_team_form(df, team_id, n_games, as_home) on the matches before today
CallTeamForm ==
    /\ call = None
    /\ \E team_id \in Teams, n_games \in 1..MaxGames, as_home \in VenueFilters :
        LET df == PriorMatches(fixtures_df, [date |-> today])
            recent == RecentMatches(df, team_id, n_games, as_home, tiebreak)
        IN  /\ call' = [fn |-> "calculate_team_form", team_id |-> team_id,
                        n_games |-> n_games, venue |-> as_home,
                        eligible |-> Len(TeamMatches(df, team_id, as_home)),
                        used |-> Ids(recent)]
            /\ form' = <<calculate_team_form(df, team_id, n_games, as_home, tiebreak),
                         calculate_team_form(df, team_id, n_games, as_home, tiebreak)>>
            /\ UNCHANGED <<fixtures_df, fixtures_table, today, tiebreak, pc,
                           features_df, build_log, pred_features, pred_log,
                           predictions, error,
                           daily, tracker, prediction_accuracy>>

\* calculate_team_features(team_id, is_home, lookback) against the table; each
\* execution of the queries orders rows of equal date in its own way
CallTeamFeatures ==
    /\ call = None
    /\ \E team_id \in Teams, is_home \in BOOLEAN, lookback \in 1..MaxGames,
          tb1 \in TieBreaks, tb2 \in TieBreaks :
        LET role == IF is_home THEN AS_HOME ELSE AS_AWAY
            qualifying(r) ==
                Cardinality({j \in 1..Len(fixtures_table) :
                    QueryWhere(fixtures_table[j], team_id, r, today)})
        IN  /\ call' = [fn |-> "calculate_team_features", team_id |-> team_id,
                        n_games |-> lookback, venue |-> role,
                        eligible |-> qualifying(AS_ANY),
                        venue_eligible |-> qualifying(role),
                        used |-> Ids(QueryRecent(fixtures_table, team_id, AS_ANY,
                                                 today, lookback, tb1)),
                        venue_used |-> Ids(QueryRecent(fixtures_table, team_id, role,
                                                       today, lookback, tb1))]
            /\ form' = <<calculate_team_features(fixtures_table, today, team_id,
                                                 is_home, lookback, <<tb1, tb1>>),
                         calculate_team_features(fixtures_table, today, team_id,
                                                 is_home, lookback, <<tb2, tb2>>)>>
            /\ UNCHANGED <<fixtures_df, fixtures_table, today, tiebreak, pc,
                           features_df, build_log, pred_features, pred_log,
                           predictions, error,
                           daily, tracker, prediction_accuracy>>

NextForm == CallTeamForm \/ CallTeamFeatures

SpecForm == InitForm /\ [][NextForm]_vars

----------------------------------------------------------------------------
(* The training build over a frame that holds one malformed record *)

\* what the record lacks: a cell the CSV leaves empty is read as NaN / NaT
MalformedKinds == {"no_home_team_id", "no_away_team_id", "no_date"}

\* the history with the cell of record i left empty
Damaged(h, i, kind) ==
    [h EXCEPT ![i] =
        CASE kind = "no_home_team_id" -> [@ EXCEPT !.home_team_id = NULL]
          [] kind = "no_away_team_id" -> [@ EXCEPT !.away_team_id = NULL]
          [] OTHER -> [@ EXCEPT !.date = NULL]]

\* where the malformed record sits: a fixture that is itself processed, and one
\* of the latest matches before the last fixture
MalformedAt == {NumFixtures - 2, NumFixtures - 1}

InitMalformed ==
    \E h \in Histories, i \in MalformedAt, kind \in MalformedKinds :
        /\ fixtures_df \in FrameOrders(Damaged(h, i, kind))
        /\ tiebreak \in TieBreaks
        /\ today = LastDate(h)
        /\ fixtures_table = TableAt(h, today, {})
        /\ pc = [built |-> FALSE, predicted |-> FALSE]
        /\ call = None
        /\ form = None
        /\ features_df = EmptyFrame
        /\ build_log = <<>>
        /\ pred_features = EmptyFrame
        /\ pred_log = <<>>
        /\ predictions = {}
        /\ error = "none"
        /\ daily = NotStarted
        /\ tracker = NoTracker
        /\ prediction_accuracy = {}

NextMalformed == BuildCompleteFeatures

SpecMalformed == InitMalformed /\ [][NextMalformed]_vars

----------------------------------------------------------------------------
(* Labelling a prediction and deriving a result, each called on its own *)

\* the three probabilities of a row in percent, in steps of 5
ProbabilityTriples ==
    {<<5 * a, 5 * b, 100 - 5 * a - 5 * b>> :
        a \in 0..20, b \in 0..20} \cap ((0..100) \X (0..100) \X (0..100))

\* most goals a side scores in a match of the API response
MaxGoals == 2

\* goals as the API reports them: null until the match has a score
ApiGoals == {NULL} \cup 0..MaxGoals

\* fixture.status.short of the API
ApiStatuses == {"NS", "PST", "FT", "AET", "PEN"}

\* home_goals > away_goals: ordering None against anything raises a TypeError
Comparable(home_goals, away_goals) == home_goals # NULL /\ away_goals # NULL

\* faulty variant: a postponed match taken as finished
FinishedOrPostponed == {"FT", "AET", "PEN", "PST"}

\* the statuses fetch_match_result takes as finished
FINISHED == {"FT", "AET", "PEN"}

\* the if/elif/else of fetch_match_result
ActualResult(home_score, away_score) ==
    IF home_score > away_score THEN "H"
    ELSE IF away_score > home_score THEN "A" ELSE "D"

\* fetch_match_result on the fixture the API returns
fetch_match_result(status, home_score, away_score) ==
    IF status \notin FINISHED THEN None
    ELSE IF home_score = NULL \/ away_score = NULL THEN None
    ELSE [home_score |-> home_score,
          away_score |-> away_score,
          actual_result |-> ActualResult(home_score, away_score),
          status |-> status]

InitCalls ==
    \E h \in {History("alternate", "daily", "mixed", "full")} : InitWith(h)

\* generate_predictions on a row whose probabilities are p
GeneratePrediction ==
    /\ call = None
    /\ \E p \in ProbabilityTriples :
        /\ call' = [fn |-> "generate_predictions", probabilities |-> p]
        /\ form' = LabelledPrediction(p)
    /\ UNCHANGED <<fixtures_df, fixtures_table, today, tiebreak, pc, features_df,
                   build_log, pred_features, pred_log, predictions, error,
                   daily, tracker, prediction_accuracy>>

\* the body of the loop of get_all_fixtures_by_season on one match of the
\* response: a row with its result, no row, or the TypeError of _get_result
CollectFixture ==
    /\ call = None
    /\ \E status \in ApiStatuses, home_goals \in ApiGoals, away_goals \in ApiGoals :
        /\ call' = [fn |-> "get_all_fixtures_by_season", status |-> status,
                    home_goals |-> home_goals, away_goals |-> away_goals]
        /\ IF status # "FT"
           THEN form' = None /\ error' = "none"
           ELSE IF ~Comparable(home_goals, away_goals)
           THEN form' = None /\ error' = "TypeError"
           ELSE /\ form' = [home_goals |-> home_goals,
                            away_goals |-> away_goals,
                            result |-> GetResult(home_goals, away_goals)]
                /\ error' = "none"
    /\ UNCHANGED <<fixtures_df, fixtures_table, today, tiebreak, pc, features_df,
                   build_log, pred_features, pred_log, predictions,
                   daily, tracker, prediction_accuracy>>

\* fetch_match_result(fixture_id) of the tracker
FetchMatchResult ==
    /\ call = None
    /\ \E status \in ApiStatuses, home_score \in ApiGoals, away_score \in ApiGoals :
        /\ call' = [fn |-> "fetch_match_result", status |-> status,
                    home_goals |-> home_score, away_goals |-> away_score]
        /\ form' = fetch_match_result(status, home_score, away_score)
    /\ UNCHANGED <<fixtures_df, fixtures_table, today, tiebreak, pc, features_df,
                   build_log, pred_features, pred_log, predictions, error,
                   daily, tracker, prediction_accuracy>>

NextCalls == GeneratePrediction \/ CollectFixture \/ FetchMatchResult

SpecCalls == InitCalls /\ [][NextCalls]_vars

----------------------------------------------------------------------------
(* run_daily_tasks: the daily automation pipeline *)

\* what main hands to run_command, in the order of its four calls
TASKS ==
    <<"Fetch Upcoming Fixtures", "Generate Predictions",
      "Track Prediction Accuracy", "Database Maintenance">>

\* total_tasks = 4
total_tasks == 4

\* how subprocess.run(command, shell=True, timeout=300) ends
Outcomes == {"returncode_0", "returncode_nonzero", "TimeoutExpired", "Exception"}

\* run_command: True for a return code of 0; False for any other return code
\* and from both except clauses
run_command(outcome) == outcome = "returncode_0"

\* faulty variant: exit 0 as soon as some task succeeded
ExitStatusAnySuccess(success_count) == IF success_count > 0 THEN 0 ELSE 1

\* sys.exit(0) if success_count == total_tasks, else sys.exit(1)
ExitStatus(success_count) == IF success_count = total_tasks THEN 0 ELSE 1

InitDaily ==
    /\ fixtures_df = <<>>
    /\ fixtures_table = <<>>
    /\ today = 1
    /\ tiebreak = "stable"
    /\ pc = [built |-> FALSE, predicted |-> FALSE]
    /\ call = None
    /\ form = None
    /\ features_df = EmptyFrame
    /\ build_log = <<>>
    /\ pred_features = EmptyFrame
    /\ pred_log = <<>>
    /\ predictions = {}
    /\ error = "none"
    /\ daily = NotStarted
    /\ tracker = NoTracker
    /\ prediction_accuracy = {}

\* one `if run_command(...): success_count += 1` of main: the next task is run,
\* however the tasks before it ended
RunTask ==
    /\ daily.exit_status = NULL
    /\ Len(daily.attempted) < Len(TASKS)
    /\ \E outcome \in Outcomes :
          daily' = [daily EXCEPT
                       !.attempted = Append(@, TASKS[Len(daily.attempted) + 1]),
                       !.outcomes = Append(@, outcome),
                       !.returned = Append(@, run_command(outcome)),
                       !.success_count =
                           IF run_command(outcome) THEN @ + 1 ELSE @]
    /\ UNCHANGED <<fixtures_df, fixtures_table, today, tiebreak, pc, call, form,
                   features_df, build_log, pred_features, pred_log, predictions,
                   error, tracker, prediction_accuracy>>

\* the summary and the sys.exit after the fourth task
ExitDaily ==
    /\ daily.exit_status = NULL
    /\ Len(daily.attempted) = Len(TASKS)
    /\ daily' = [daily EXCEPT !.exit_status = ExitStatus(daily.success_count)]
    /\ UNCHANGED <<fixtures_df, fixtures_table, today, tiebreak, pc, call, form,
                   features_df, build_log, pred_features, pred_log, predictions,
                   error, tracker, prediction_accuracy>>

NextDaily == RunTask \/ ExitDaily

\* main is straight-line code: it goes on until it exits
SpecDaily == InitDaily /\ [][NextDaily]_vars /\ WF_vars(NextDaily)

----------------------------------------------------------------------------
(* track_predictions: the PredictionTracker *)

\* LIMIT 50
UNTRACKED_LIMIT == 50

\* the fixtures the stored predictions are about: two that are played before
\* the tracker runs and one that is not
TrackedFixtures == {NumFixtures - 2, NumFixtures - 1, NumFixtures}

\* prediction dates
PredictionDays == {NumFixtures - 4, NumFixtures - 3}

\* a row of the predictions table as save_predictions_to_db writes it
StoredPrediction(fixture_id, prediction_date, p) ==
    LabelledPrediction(p)
    @@ [fixture_id |-> fixture_id, features_of |-> fixture_id,
        prediction_date |-> prediction_date]

\* what the model predicted for a fixture on a day: the forecast of a fixture
\* changes from one day to the next
ForecastOf(fixture_id, prediction_date) ==
    IF (fixture_id + prediction_date) % 2 = 0 THEN <<60, 25, 15>> ELSE <<20, 30, 50>>

\* predictions tables: each fixture predicted on none, one or both of the days
PredictionTables ==
    {{StoredPrediction(k[1], k[2], ForecastOf(k[1], k[2])) : k \in keys} :
        keys \in SUBSET (TrackedFixtures \X PredictionDays)}

\* FROM predictions p JOIN fixtures f ... LEFT JOIN prediction_accuracy pa ...
\* WHERE f.date < CURRENT_TIMESTAMP AND pa.fixture_id IS NULL
UntrackedRows(preds, fixtures, accuracy, now) ==
    {p \in preds :
        /\ \E i \in 1..Len(fixtures) :
              fixtures[i].fixture_id = p.fixture_id /\ fixtures[i].date < now
        /\ ~\E pa \in accuracy : pa.fixture_id = p.fixture_id}

FixtureDate(fixtures, fixture_id) ==
    fixtures[CHOOSE i \in 1..Len(fixtures) :
                 fixtures[i].fixture_id = fixture_id].date

\* get_untracked_predictions: ORDER BY f.date DESC LIMIT 50 returns the rows
\* in one of the orders that put later fixtures first; rows of one fixture, or
\* of fixtures of equal date, come in any order
get_untracked_predictions(preds, fixtures, accuracy, now) ==
    LET rows == UntrackedRows(preds, fixtures, accuracy, now)
        n == Cardinality(rows)
        orders ==
            {s \in [1..n -> rows] :
                \A i \in 1..n : \A j \in 1..n :
                    i < j => /\ s[i] # s[j]
                             /\ FixtureDate(fixtures, s[i].fixture_id)
                                    >= FixtureDate(fixtures, s[j].fixture_id)}
    IN  {SubSeq(s, 1, IF n < UNTRACKED_LIMIT THEN n ELSE UNTRACKED_LIMIT) :
            s \in orders}

\* scores of the API response of the tracker
TrackerGoals == {NULL, 0, 1}

\* what requests.get gives fetch_match_result: an exception, an answer with
\* results == 0, or a fixture with its status and goals
ApiResponses ==
    {[kind |-> "error", status |-> "", home |-> NULL, away |-> NULL],
     [kind |-> "no_results", status |-> "", home |-> NULL, away |-> NULL]}
    \cup {[kind |-> "fixture", status |-> st, home |-> h, away |-> a] :
              st \in ApiStatuses, h \in TrackerGoals, a \in TrackerGoals}

\* fetch_match_result(fixture_id) as a whole: None from the except clause and
\* for an empty answer, else what the fixture of the answer gives
FetchResult(response) ==
    IF response.kind # "fixture" THEN None
    ELSE fetch_match_result(response.status, response.home, response.away)

\* faulty variant: ON CONFLICT (fixture_id) DO UPDATE
save_accuracy_overwriting(accuracy, prediction_data, result_data) ==
    {pa \in accuracy : pa.fixture_id # prediction_data.fixture_id}
    \cup {[fixture_id |-> prediction_data.fixture_id,
            predicted_result |-> prediction_data.predicted_result,
            actual_result |-> result_data.actual_result,
            was_correct |->
                prediction_data.predicted_result = result_data.actual_result,
            predicted_home_prob |-> prediction_data.home_win_prob,
            predicted_draw_prob |-> prediction_data.draw_prob,
            predicted_away_prob |-> prediction_data.away_win_prob,
            confidence |-> prediction_data.confidence]}

\* save_accuracy: INSERT INTO prediction_accuracy ... ON CONFLICT (fixture_id)
\* DO NOTHING; the table afterwards
save_accuracy(accuracy, prediction_data, result_data) ==
    IF \E pa \in accuracy : pa.fixture_id = prediction_data.fixture_id
    THEN accuracy
    ELSE accuracy
         \cup {[fixture_id |-> prediction_data.fixture_id,
                 predicted_result |-> prediction_data.predicted_result,
                 actual_result |-> result_data.actual_result,
                 was_correct |->
                     prediction_data.predicted_result = result_data.actual_result,
                 predicted_home_prob |-> prediction_data.home_win_prob,
                 predicted_draw_prob |-> prediction_data.draw_prob,
                 predicted_away_prob |-> prediction_data.away_win_prob,
                 confidence |-> prediction_data.confidence]}

InitTracker ==
    LET h == History("alternate", "daily", "mixed", "full")
    IN  /\ fixtures_df = h
        /\ today = LastDate(h)
        /\ fixtures_table = TableAt(h, today, {})
        /\ tiebreak = "stable"
        /\ pc = [built |-> FALSE, predicted |-> FALSE]
        /\ call = None
        /\ form = None
        /\ features_df = EmptyFrame
        /\ build_log = <<>>
        /\ pred_features = EmptyFrame
        /\ pred_log = <<>>
        /\ predictions \in PredictionTables
        /\ error = "none"
        /\ daily = NotStarted
        /\ tracker = NoTracker
        /\ prediction_accuracy = {}

\* run() of a new PredictionTracker up to its loop: the untracked predictions
\* are listed; with none the run is over
TrackerRun ==
    /\ tracker.phase \in {"new", "finished"}
    /\ \E list \in get_untracked_predictions(predictions, fixtures_table,
                                               prediction_accuracy, today) :
          tracker' = [phase |-> IF list = <<>> THEN "finished" ELSE "tracking",
                      predictions |-> list, pos |-> 1,
                      updated_count |-> 0, failed_count |-> 0, added |-> 0,
                      last |-> None]
    /\ UNCHANGED <<fixtures_df, fixtures_table, today, tiebreak, pc, call, form,
                   features_df, build_log, pred_features, pred_log, predictions,
                   error, daily, prediction_accuracy>>

\* the body of the loop of run() for the next prediction of the list: fetch the
\* result and save the accuracy, or count the prediction as skipped; `added`
\* counts the rows the table gained, `last` keeps what this iteration did
TrackPrediction ==
    /\ tracker.phase = "tracking"
    /\ tracker.pos <= Len(tracker.predictions)
    /\ \E response \in ApiResponses :
          LET prediction_data == tracker.predictions[tracker.pos]
              result == FetchResult(response)
              saved == IF result # None
                       THEN save_accuracy(prediction_accuracy, prediction_data, result)
                       ELSE prediction_accuracy
          IN  /\ prediction_accuracy' = saved
              /\ tracker' =
                     [tracker EXCEPT
                         !.pos = @ + 1,
                         !.updated_count = IF result # None THEN @ + 1 ELSE @,
                         !.failed_count = IF result # None THEN @ ELSE @ + 1,
                         !.added = @ + Cardinality(saved)
                                     - Cardinality(prediction_accuracy),
                         !.last = [prediction |-> prediction_data,
                                   response |-> response,
                                   result |-> result,
                                   tracked_before |->
                                       \E pa \in prediction_accuracy :
                                           pa.fixture_id = prediction_data.fixture_id,
                                   failed_before |-> tracker.failed_count,
                                   written |-> saved # prediction_accuracy]]
    /\ UNCHANGED <<fixtures_df, fixtures_table, today, tiebreak, pc, call, form,
                   features_df, build_log, pred_features, pred_log, predictions,
                   error, daily>>

\* the end of run(): the counters are printed
TrackerSummary ==
    /\ tracker.phase = "tracking"
    /\ tracker.pos > Len(tracker.predictions)
    /\ tracker' = [tracker EXCEPT !.phase = "finished", !.last = None]
    /\ UNCHANGED <<fixtures_df, fixtures_table, today, tiebreak, pc, call, form,
                   features_df, build_log, pred_features, pred_log, predictions,
                   error, daily, prediction_accuracy>>

NextTracker == TrackerRun \/ TrackPrediction \/ TrackerSummary

SpecTracker == InitTracker /\ [][NextTracker]_vars

----------------------------------------------------------------------------
(* save_predictions_to_db called again and again, on one day and on the next *)

\* the probabilities generate_predictions may give a fixture
Forecasts == {<<60, 25, 15>>, <<20, 30, 50>>, <<40, 40, 20>>}

\* the upcoming fixtures a run predicts
UpcomingIds == {NumFixtures - 1, NumFixtures}

\* a row of the frame `predictions` handed to save_predictions_to_db
ResultsRow(fixture_id, p) ==
    LabelledPrediction(p) @@ [fixture_id |-> fixture_id, features_of |-> fixture_id]

\* the frames handed to save_predictions_to_db: one row per upcoming fixture
\* that got features, no fixture twice
ResultsFrames ==
    {<<ResultsRow(f, p)>> : f \in UpcomingIds, p \in Forecasts}
    \cup {<<ResultsRow(NumFixtures - 1, p), ResultsRow(NumFixtures, q)>> :
              p \in Forecasts, q \in Forecasts}

InitSave ==
    LET h == History("alternate", "daily", "mixed", "full")
    IN  /\ fixtures_df = h
        /\ today = LastDate(h) - 1
        /\ fixtures_table = TableAt(h, today, {})
        /\ tiebreak = "stable"
        /\ pc = [built |-> FALSE, predicted |-> FALSE]
        /\ call = None
        /\ form = None
        /\ features_df = EmptyFrame
        /\ build_log = <<>>
        /\ pred_features = EmptyFrame
        /\ pred_log = <<>>
        /\ predictions = {}
        /\ error = "none"
        /\ daily = NotStarted
        /\ tracker = NoTracker
        /\ prediction_accuracy = {}

\* save_predictions_to_db(predictions, model_version) with prediction_date =
\* datetime.now().date(); `call` keeps the arguments and the table before
SavePredictions ==
    /\ \E results \in ResultsFrames :
          /\ call' = [fn |-> "save_predictions_to_db", results |-> results,
                      prediction_date |-> today, before |-> predictions]
          /\ predictions' = save_predictions_to_db(predictions, results, today)
    /\ UNCHANGED <<fixtures_df, fixtures_table, today, tiebreak, pc, form,
                   features_df, build_log, pred_features, pred_log, error,
                   daily, tracker, prediction_accuracy>>

\* midnight passes: datetime.now().date() of the next call is the next day
NextDay ==
    /\ today < LastDate(fixtures_df)
    /\ today' = today + 1
    /\ UNCHANGED <<fixtures_df, fixtures_table, tiebreak, pc, call, form,
                   features_df, build_log, pred_features, pred_log, predictions,
                   error, daily, tracker, prediction_accuracy>>

NextSave == SavePredictions \/ NextDay

SpecSave == InitSave /\ [][NextSave]_vars

----------------------------------------------------------------------------
(* fetch_upcoming_fixtures: insert_fixtures_to_db on the fixtures table *)

\* the season every inserted row is given
CURRENT_SEASON == "2024-2025"

\* fixture.status.short of the fixtures fetch_upcoming_fixtures keeps
UPCOMING_STATUSES == {"NS", "TBD"}

\* the fixtures table with its status column: FT for a played fixture
WithStatus(table) ==
    [i \in 1..Len(table) |->
        table[i] @@ [status |-> IF table[i].result # NO_RESULT THEN "FT" ELSE "NS"]]

\* a dict of the list `fixtures`, as fetch_upcoming_fixtures builds it from a
\* match of the API response
ApiFixture(fixture_id, date, teams, status) ==
    [fixture_id |-> fixture_id, date |-> date,
     home_team_id |-> teams[1], home_team |-> TeamName(teams[1]),
     away_team_id |-> teams[2], away_team |-> TeamName(teams[2]),
     status |-> status]

\* ids the API reports: a played fixture of the table, a scheduled one, a new one
ReportedIds == {NumFixtures - 1, NumFixtures, NumFixtures + 1}

\* the lists handed to insert_fixtures_to_db: none, one or two fixtures
FixtureLists(current_date) ==
    {<<>>}
    \cup {<<ApiFixture(id, d, t, st)>> :
              id \in ReportedIds, d \in {current_date, current_date + 1},
              t \in {<<1, 2>>, <<2, 1>>}, st \in UPCOMING_STATUSES}
    \cup {<<ApiFixture(ids[1], d, t, st), ApiFixture(ids[2], d, t, st)>> :
              ids \in {x \in ReportedIds \X ReportedIds : x[1] < x[2]},
              d \in {current_date, current_date + 1},
              t \in {<<1, 2>>, <<2, 1>>}, st \in UPCOMING_STATUSES}

\* the tuple of fixture_data as a row of fixtures; the row has no
\* match_statistics, so the joined columns are NULL
InsertedRow(fixture) ==
    [fixture_id |-> fixture.fixture_id,
     date |-> fixture.date,
     season |-> CURRENT_SEASON,
     home_team_id |-> fixture.home_team_id,
     home_team |-> fixture.home_team,
     away_team_id |-> fixture.away_team_id,
     away_team |-> fixture.away_team,
     home_goals |-> NULL,
     away_goals |-> NULL,
     result |-> NO_RESULT,
     status |-> fixture.status]
    @@ StatsOf("missing", fixture.fixture_id)

\* faulty variant: ON CONFLICT (fixture_id) DO UPDATE SET of every column
insert_fixtures_overwriting(table, fixtures) ==
    LET stored(id) == \E i \in 1..Len(table) : table[i].fixture_id = id
        given(id) ==
            fixtures[CHOOSE j \in 1..Len(fixtures) : fixtures[j].fixture_id = id]
    IN  [i \in 1..Len(table) |->
            IF \E j \in 1..Len(fixtures) :
                   fixtures[j].fixture_id = table[i].fixture_id
            THEN InsertedRow(given(table[i].fixture_id))
            ELSE table[i]]
        \o SelectSeq([j \in 1..Len(fixtures) |-> InsertedRow(fixtures[j])],
                     LAMBDA row : ~stored(row.fixture_id))

\* INSERT INTO fixtures ... VALUES %s ON CONFLICT (fixture_id) DO UPDATE SET
\* date = EXCLUDED.date, status = EXCLUDED.status; the table afterwards.  With
\* an empty list the function returns before connecting.
insert_fixtures_to_db(table, fixtures) ==
    LET stored(id) == \E i \in 1..Len(table) : table[i].fixture_id = id
        given(id) ==
            fixtures[CHOOSE j \in 1..Len(fixtures) : fixtures[j].fixture_id = id]
    IN  [i \in 1..Len(table) |->
            IF \E j \in 1..Len(fixtures) :
                   fixtures[j].fixture_id = table[i].fixture_id
            THEN [table[i] EXCEPT !.date = given(table[i].fixture_id).date,
                                  !.status = given(table[i].fixture_id).status]
            ELSE table[i]]
        \o SelectSeq([j \in 1..Len(fixtures) |-> InsertedRow(fixtures[j])],
                     LAMBDA row : ~stored(row.fixture_id))

InitFixtures ==
    LET h == History("alternate", "daily", "mixed", "full")
    IN  /\ fixtures_df = h
        /\ today = LastDate(h)
        /\ fixtures_table = WithStatus(TableAt(h, today, {}))
        /\ tiebreak = "stable"
        /\ pc = [built |-> FALSE, predicted |-> FALSE]
        /\ call = None
        /\ form = None
        /\ features_df = EmptyFrame
        /\ build_log = <<>>
        /\ pred_features = EmptyFrame
        /\ pred_log = <<>>
        /\ predictions = {}
        /\ error = "none"
        /\ daily = NotStarted
        /\ tracker = NoTracker
        /\ prediction_accuracy = {}

\* insert_fixtures_to_db(fixtures), called by main of fetch_upcoming_fixtures;
\* `call` keeps the list and the table before
InsertFixtures ==
    /\ \E fixtures \in FixtureLists(today) :
          /\ call' = [fn |-> "insert_fixtures_to_db", fixtures |-> fixtures,
                      before |-> fixtures_table]
          /\ fixtures_table' = insert_fixtures_to_db(fixtures_table, fixtures)
    /\ UNCHANGED <<fixtures_df, today, tiebreak, pc, form, features_df, build_log,
                   pred_features, pred_log, predictions, error, daily, tracker,
                   prediction_accuracy>>

NextFixtures == InsertFixtures

SpecFixtures == InitFixtures /\ [][NextFixtures]_vars

----------------------------------------------------------------------------
(* Properties *)

RowOf(id) ==
    fixtures_table[CHOOSE i \in 1..Len(fixtures_table) :
                       fixtures_table[i].fixture_id = id]

Processed(log) == {i \in 1..Len(log) : log[i].processed}

Emitted(log) == {i \in Processed(log) : log[i].row # None}

Range(seq) == {seq[i] : i \in 1..Len(seq)}

\* C1: every match used by one of the four snapshots of a processed fixture is
\* dated strictly before that fixture (training path), and every match used by
\* calculate_team_features is dated strictly before the current date.
C1_OnlyEarlierMatchesUsed ==
    /\ \A i \in Processed(build_log) : \A k \in 1..4 :
          \A id \in build_log[i].calls[k].used :
              RowOf(id).date < build_log[i].date
    /\ \A i \in Processed(pred_log) : \A k \in 1..4 :
          \A id \in pred_log[i].calls[k].used : RowOf(id).date < today

\* a processed fixture whose home team has another match on the fixture's own
\* day, and an inference run on a day that already has a played match
C1_Witness ==
    /\ \E i \in Emitted(build_log) :
          /\ build_log[i].calls[1].used # {}
          /\ \E j \in 1..Len(fixtures_df) :
                /\ fixtures_df[j].date = build_log[i].date
                /\ fixtures_df[j].fixture_id # build_log[i].fixture_id
                /\ RowOf(build_log[i].fixture_id).home_team_id
                       \in {fixtures_df[j].home_team_id, fixtures_df[j].away_team_id}
    /\ \E i \in Emitted(pred_log) :
          /\ pred_log[i].calls[1].used # {}
          /\ \E j \in 1..Len(fixtures_table) :
                /\ fixtures_table[j].date = today
                /\ fixtures_table[j].result # NO_RESULT

\* C2: with fewer than n_games qualifying matches (of the team, in the venue role
\* when one is given, before the cutoff) the form calculation returns None; for
\* calculate_team_features the matches counted are the overall ones.
C2_ShortHistoryIsAbsent ==
    call # None =>
        (call.eligible < call.n_games => form[1] = None)

\* C3: for a fixture dated today, whose history before the cutoff is therefore
\* the same in both paths, the training row and the inference row agree on
\* every one of the 36 fields.
C3_PathsAgree ==
    \A i \in Emitted(build_log), j \in Emitted(pred_log) :
        (build_log[i].fixture_id = pred_log[j].fixture_id
         /\ build_log[i].date = today)
        => \A c \in 1..Len(expected_cols) :
              build_log[i].row[expected_cols[c]] = pred_log[j].row[expected_cols[c]]

\* C4: every assembled frame has exactly the 36 feature fields, each row holds a
\* number under each, and the order of the fields is the same in the training
\* frame (its columns without the metadata, as prepare_data takes them) and in
\* the inference frame (expected_cols).
C4_FixedFieldOrder ==
    /\ features_df.rows # <<>> =>
          /\ feature_cols(features_df.columns) = expected_cols
          /\ Len(feature_cols(features_df.columns)) = 36
          /\ \A r \in 1..Len(features_df.rows) :
                /\ DOMAIN features_df.rows[r] = Range(features_df.columns)
                /\ \A c \in 1..Len(expected_cols) :
                      features_df.rows[r][expected_cols[c]] \in Int \X Int
    /\ pred_features.rows # <<>> =>
          /\ pred_features.columns = expected_cols
          /\ Len(pred_features.columns) = 36
          /\ Cardinality(Range(pred_features.columns)) = 36
          /\ \A r \in 1..Len(pred_features.rows) :
                /\ DOMAIN pred_features.rows[r] = Range(pred_features.columns)
                /\ \A c \in 1..Len(expected_cols) :
                      pred_features.rows[r][expected_cols[c]] \in Int \X Int

\* both paths have assembled at least one row
C4_Witness == features_df.rows # <<>> /\ pred_features.rows # <<>>

\* C5: a fixture gets a feature row only if all four snapshots are present.  In
\* the training path a snapshot is absent when calculate_team_form returned None;
\* in the inference path the overall snapshot is absent when the function
\* returned None and the venue snapshot when no venue match was fetched.
C5_AbsentSnapshotSkipsFixture ==
    /\ \A i \in Processed(build_log) :
          (\E k \in 1..4 : build_log[i].calls[k].form = None)
          => build_log[i].row = None
    /\ \A i \in Processed(pred_log) :
          (\/ pred_log[i].results[1] = None
           \/ pred_log[i].results[2] = None
           \/ pred_log[i].calls[2].fetched = 0
           \/ pred_log[i].calls[4].fetched = 0)
          => pred_log[i].row = None

\* C6: when a run skips one upcoming fixture and has features for another, every
\* fixture that was not skipped has a saved prediction made from its own features.
C6_BatchSurvivesSkip ==
    (/\ pc.predicted
     /\ \E i \in Processed(pred_log) : pred_log[i].row = None
     /\ Emitted(pred_log) # {})
    => \A i \in Emitted(pred_log) :
          \E p \in predictions :
              /\ p.fixture_id = pred_log[i].fixture_id
              /\ p.features_of = pred_log[i].fixture_id

\* C7: two invocations of a form calculation with the same arguments on the same
\* match collection return the same snapshot.
C7_Deterministic == call # None => form[1] = form[2]

\* C8: no step changes the caller's match collection.
C8_CallerFrameUnchanged == [][fixtures_df' = fixtures_df]_vars

\* build_complete_features has returned rows for a frame that is not in date order
C8_Witness ==
    /\ pc.built
    /\ features_df.rows # <<>>
    /\ fixtures_df # sort_values(fixtures_df, tiebreak)

\* C9: in every snapshot calculate_team_form returns, wins + draws + losses is the
\* requested n_games.
C9_OutcomesSumToLookback ==
    (call # None /\ call.fn = "calculate_team_form" /\ form[1] # None)
    => form[1].wins + form[1].draws + form[1].losses = call.n_games

ZeroGuarded(den, shot_accuracy, conversion_rate, defensive_efficiency,
            poss_efficiency, corner_effectiveness) ==
    /\ den.total_shots = Num(0) => shot_accuracy = Num(0)
    /\ den.total_shots_on_target = Num(0) => conversion_rate = Num(0)
    /\ den.shots_against_total = Num(0) => defensive_efficiency = Num(0)
    /\ den.possession = Num(0) => poss_efficiency = Num(0)
    /\ den.corners = Num(0) => corner_effectiveness = Num(0)

RowZeroGuarded(entry) ==
    /\ ZeroGuarded(entry.calls[1].den,
                   entry.row.home_shot_accuracy, entry.row.home_conversion_rate,
                   entry.row.home_defensive_efficiency,
                   entry.row.home_poss_efficiency,
                   entry.row.home_corner_effectiveness)
    /\ ZeroGuarded(entry.calls[3].den,
                   entry.row.away_shot_accuracy, entry.row.away_conversion_rate,
                   entry.row.away_defensive_efficiency,
                   entry.row.away_poss_efficiency,
                   entry.row.away_corner_effectiveness)

\* C10: in every feature row of either path, each of shot accuracy, conversion
\* rate, defensive efficiency, possession efficiency and corner effectiveness is
\* 0 when its denominator (total shots for, total shots on target for, total
\* shots against, average possession, corners for) is 0.
C10_ZeroGuard ==
    /\ \A i \in Emitted(build_log) : RowZeroGuarded(build_log[i])
    /\ \A i \in Emitted(pred_log) : RowZeroGuarded(pred_log[i])

\* C11: in every feature row of either path, defensive_diff is the away team's
\* defensive efficiency minus the home team's.
C11_DefensiveDiffAwayMinusHome ==
    /\ \A i \in Emitted(build_log) :
          build_log[i].row.defensive_diff =
              RSub(build_log[i].row.away_defensive_efficiency,
                   build_log[i].row.home_defensive_efficiency)
    /\ \A i \in Emitted(pred_log) :
          pred_log[i].row.defensive_diff =
              RSub(pred_log[i].row.away_defensive_efficiency,
                   pred_log[i].row.home_defensive_efficiency)

\* C12: the confidence label of every prediction is High when the highest
\* probability is at least 60%, Medium when it is at least 50% and below 60%,
\* and Low otherwise.
C12_ConfidenceBuckets ==
    (call # None /\ call.fn = "generate_predictions")
    => LET top == Max3(call.probabilities)
       IN  form.confidence =
               IF top >= 60 THEN "High"
               ELSE IF top >= 50 THEN "Medium" ELSE "Low"

C14_ResultMatchesScore ==
    /\ (call # None /\ call.fn = "get_all_fixtures_by_season" /\ form # None)
       => /\ form.home_goals # NULL /\ form.away_goals # NULL
          /\ form.home_goals = call.home_goals /\ form.away_goals = call.away_goals
          /\ form.result = "H" <=> form.home_goals > form.away_goals
          /\ form.result = "A" <=> form.away_goals > form.home_goals
          /\ form.result = "D" <=> form.home_goals = form.away_goals
    /\ (call # None /\ call.fn = "fetch_match_result" /\ form # None)
       => /\ form.home_score # NULL /\ form.away_score # NULL
          /\ form.home_score = call.home_goals /\ form.away_score = call.away_goals
          /\ form.actual_result = "H" <=> form.home_score > form.away_score
          /\ form.actual_result = "A" <=> form.away_score > form.home_score
          /\ form.actual_result = "D" <=> form.home_score = form.away_score

\* the collector has derived the result of a finished match with level scores
C14_Witness ==
    /\ call # None
    /\ call.fn = "get_all_fixtures_by_season"
    /\ form # None
    /\ form.result = "D"
    /\ form.home_goals = form.away_goals

Malformed(row) ==
    row.home_team_id = NULL \/ row.away_team_id = NULL \/ row.date = NULL

\* C15: a record that lacks a team identifier or its date is used by no snapshot
\* of any team, and the build still goes over every well-formed record without
\* raising.
C15_MalformedRecordExcluded ==
    pc.built =>
        /\ error = "none"
        /\ \A j \in 1..Len(fixtures_df) :
              IF Malformed(fixtures_df[j])
              THEN \A i \in Processed(build_log) : \A k \in 1..4 :
                       fixtures_df[j].fixture_id \notin build_log[i].calls[k].used
              ELSE \E i \in 1..Len(build_log) :
                       build_log[i].fixture_id = fixtures_df[j].fixture_id

\* whether team_id plays the row in the role asked for
InRole(row, team_id, venue) ==
    CASE venue = AS_ANY -> row.home_team_id = team_id \/ row.away_team_id = team_id
      [] venue = AS_HOME -> row.home_team_id = team_id
      [] OTHER -> row.away_team_id = team_id

\* the matches eligible for the window of the call made: for calculate_team_form
\* the team's rows in the venue role before the cutoff, for
\* calculate_team_features the team's finished matches before the current date
CallEligible ==
    IF call.fn = "calculate_team_form"
    THEN {r \in Range(fixtures_df) :
            r.date < today /\ InRole(r, call.team_id, call.venue)}
    ELSE {r \in Range(fixtures_table) :
            r.date < today /\ r.result # NO_RESULT
            /\ InRole(r, call.team_id, AS_ANY)}

\* C16: with at least n_games eligible matches, exactly n_games of them are used
\* and no eligible match left out is dated later than one that is used.
C16_MostRecentUsed ==
    (call # None /\ Cardinality(CallEligible) >= call.n_games)
    => /\ form[1] # None
       /\ Cardinality(call.used) = call.n_games
       /\ call.used \subseteq {r.fixture_id : r \in CallEligible}
       /\ \A out \in CallEligible, in \in CallEligible :
             (out.fixture_id \notin call.used /\ in.fixture_id \in call.used)
             => out.date <= in.date

\* calculate_team_form has chosen a window among more eligible matches than it
\* takes, some of them older than every match of the window
C16_Witness ==
    /\ call # None
    /\ call.fn = "calculate_team_form"
    /\ call.n_games > 1
    /\ form[1] # None
    /\ Cardinality(CallEligible) > call.n_games
    /\ \E out \in CallEligible :
          /\ out.fixture_id \notin call.used
          /\ \A id \in call.used : out.date < RowOf(id).date

\* the matches of the window that the team of the call won, and those it drew,
\* by the score
WonInWindow ==
    {id \in call.used :
        LET r == RowOf(id)
        IN  IF r.home_team_id = call.team_id
            THEN r.home_goals > r.away_goals ELSE r.away_goals > r.home_goals}

DrawnInWindow == {id \in call.used : RowOf(id).home_goals = RowOf(id).away_goals}

\* C17: the win fraction of every returned snapshot is the wins of the window
\* divided by the requested n_games, and lies between 0 and 1.
C17_WinFractionOverLookback ==
    (call # None /\ form[1] # None)
    => LET win_fraction ==
               IF call.fn = "calculate_team_form"
               THEN form[1].win_pct ELSE form[1].win_pct_l5
       IN  /\ win_fraction = Rat(Cardinality(WonInWindow), call.n_games)
           /\ ~RGt(Num(0), win_fraction)
           /\ ~RGt(win_fraction, Num(1))

\* C18: the points of every returned snapshot are 3 for each match of the window
\* the team won plus 1 for each it drew; calculate_team_form also returns these
\* two counts as wins and draws.
C18_PointsFromWinsAndDraws ==
    (call # None /\ form[1] # None)
    => IF call.fn = "calculate_team_form"
       THEN /\ form[1].wins = Cardinality(WonInWindow)
            /\ form[1].draws = Cardinality(DrawnInWindow)
            /\ form[1].points = 3 * form[1].wins + form[1].draws
       ELSE form[1].recent_points =
                3 * Cardinality(WonInWindow) + Cardinality(DrawnInWindow)

\* calculate_team_features has returned the points of a window with a win, a
\* draw and a defeat in it
C18_Witness ==
    /\ call # None
    /\ call.fn = "calculate_team_features"
    /\ form[1] # None
    /\ WonInWindow # {}
    /\ DrawnInWindow # {}
    /\ call.used # WonInWindow \cup DrawnInWindow
    /\ form[1].recent_points > 0

\* 100 * total goals for / total shots on target for, or 0 without shots on target
ConversionOf(den) ==
    IF RGt(den.total_shots_on_target, Num(0))
    THEN RDiv(RMul(Num(100), den.total_goals), den.total_shots_on_target)
    ELSE Num(0)

\* C19: in every feature row of either path the conversion rate of each team is
\* 100 * its total goals / its total shots on target when it has shots on
\* target, and 0 otherwise.
C19_ConversionOverShotsOnTarget ==
    /\ \A i \in Emitted(build_log) :
          /\ build_log[i].row.home_conversion_rate = ConversionOf(build_log[i].calls[1].den)
          /\ build_log[i].row.away_conversion_rate = ConversionOf(build_log[i].calls[3].den)
    /\ \A i \in Emitted(pred_log) :
          /\ pred_log[i].row.home_conversion_rate = ConversionOf(pred_log[i].calls[1].den)
          /\ pred_log[i].row.away_conversion_rate = ConversionOf(pred_log[i].calls[3].den)

\* C20: in every feature row of either path home_advantage is the home team's
\* home win fraction minus the away team's away win fraction.
C20_HomeAdvantageFromVenueForm ==
    /\ \A i \in Emitted(build_log) :
          build_log[i].row.home_advantage =
              RSub(build_log[i].row.home_win_pct_home_l5,
                   build_log[i].row.away_win_pct_away_l5)
    /\ \A i \in Emitted(pred_log) :
          pred_log[i].row.home_advantage =
              RSub(pred_log[i].row.home_win_pct_home_l5,
                   pred_log[i].row.away_win_pct_away_l5)

\* the record of the caller's frame with this fixture_id
FrameRow(id) ==
    fixtures_df[CHOOSE i \in 1..Len(fixtures_df) : fixtures_df[i].fixture_id = id]

\* the team a call of an iteration is made for: the fixture's home team in the
\* first two calls, its away team in the last two
TeamOfCall(fixture, k) ==
    IF k <= 2 THEN fixture.home_team_id ELSE fixture.away_team_id

\* of the matches `rows`, those whose result names the role team_id played
WonByRole(rows, team_id) ==
    {r \in rows : \/ (r.home_team_id = team_id /\ r.result = "H")
                  \/ (r.away_team_id = team_id /\ r.result = "A")}

DrawnByResult(rows) == {r \in rows : r.result = "D"}

\* C21: every match of a window counts as exactly one of win, draw and loss for
\* the team: a win iff the result names the role the team played, a draw iff the
\* result is D, a loss otherwise; and when the two teams of a fixture have the
\* same window, the wins of one are the losses of the other.  The inference
\* path shows its classification in win_pct_l5 and recent_points.
C21_OutcomeByRole ==
    /\ \A i \in Processed(build_log) : \A k \in 1..4 :
          LET c == build_log[i].calls[k]
              team_id == TeamOfCall(FrameRow(build_log[i].fixture_id), k)
              rows == {FrameRow(id) : id \in c.used}
              won == Cardinality(WonByRole(rows, team_id))
              drawn == Cardinality(DrawnByResult(rows))
          IN  c.form # None =>
                  /\ c.form.wins = won
                  /\ c.form.draws = drawn
                  /\ c.form.losses = Cardinality(rows) - won - drawn
                  /\ c.form.wins + c.form.draws + c.form.losses = c.form.games_played
    /\ \A i \in Processed(build_log) :
          LET home == build_log[i].calls[1]
              away == build_log[i].calls[3]
          IN  (home.form # None /\ away.form # None /\ home.used = away.used)
              => /\ home.form.wins = away.form.losses
                 /\ home.form.losses = away.form.wins
                 /\ home.form.draws = away.form.draws
    /\ \A i \in Processed(pred_log) : \A side \in 1..2 :
          LET c == pred_log[i].calls[2 * side - 1]
              team_id == TeamOfCall(RowOf(pred_log[i].fixture_id), 2 * side - 1)
              rows == {RowOf(id) : id \in c.used}
              won == Cardinality(WonByRole(rows, team_id))
              drawn == Cardinality(DrawnByResult(rows))
          IN  pred_log[i].results[side] # None =>
                  /\ pred_log[i].results[side].win_pct_l5 = Rat(won, LOOKBACK)
                  /\ pred_log[i].results[side].recent_points = 3 * won + drawn

\* both paths have classified a window that the two teams of the fixture share
\* and that holds a win, a draw and a defeat of the home team
C21_Witness ==
    /\ \E i \in Emitted(build_log) :
          /\ build_log[i].calls[1].used = build_log[i].calls[3].used
          /\ build_log[i].calls[1].form.wins > 0
          /\ build_log[i].calls[1].form.draws > 0
          /\ build_log[i].calls[1].form.losses > 0
    /\ \E i \in Emitted(pred_log) :
          /\ pred_log[i].calls[1].used = pred_log[i].calls[3].used
          /\ pred_log[i].results[1].recent_points > 0
          /\ pred_log[i].results[2].recent_points > 0

\* a statistic of a record from team_id's side, with `absent` for an empty cell
StatOrAbsent(row, team_id, home_col, away_col, absent) ==
    LET v == IF row.home_team_id = team_id THEN row[home_col] ELSE row[away_col]
    IN  IF v = NULL THEN absent ELSE v

RECURSIVE StatTotal(_, _, _, _, _)
StatTotal(rows, team_id, home_col, away_col, absent) ==
    IF rows = {} THEN 0
    ELSE LET r == CHOOSE x \in rows : TRUE
         IN  StatOrAbsent(r, team_id, home_col, away_col, absent)
             + StatTotal(rows \ {r}, team_id, home_col, away_col, absent)

\* the totals of a window count 0 shots, 0 shots on target and 0 corners for a
\* match without statistics, and 50 for its possession; recorded values count
\* as they are
AbsentStatsNeutral(den, rows, team_id) ==
    /\ den.total_shots = Num(StatTotal(rows, team_id, "home_shots", "away_shots", 0))
    /\ den.total_shots_on_target =
           Num(StatTotal(rows, team_id,
                         "home_shots_on_target", "away_shots_on_target", 0))
    /\ den.corners = Num(StatTotal(rows, team_id, "home_corners", "away_corners", 0))
    /\ den.possession =
           Num(StatTotal(rows, team_id, "home_possession", "away_possession", 50))

\* C22: in the overall window of each team of every fixture, in both paths, a
\* match whose statistics are absent adds 0 to the totals of shots, shots on
\* target and corners, and its possession counts as 50; a recorded possession is
\* never replaced.
C22_AbsentStatisticsNeutral ==
    /\ \A i \in Processed(build_log) : \A k \in {1, 3} :
          AbsentStatsNeutral(build_log[i].calls[k].den,
                             {FrameRow(id) : id \in build_log[i].calls[k].used},
                             TeamOfCall(FrameRow(build_log[i].fixture_id), k))
    /\ \A i \in Processed(pred_log) : \A k \in {1, 3} :
          AbsentStatsNeutral(pred_log[i].calls[k].den,
                             {RowOf(id) : id \in pred_log[i].calls[k].used},
                             TeamOfCall(RowOf(pred_log[i].fixture_id), k))

\* the venue filter of the k-th call of an iteration
VenueOfCall(k) == <<AS_ANY, AS_HOME, AS_ANY, AS_AWAY>>[k]

C30_VenueFallback ==
    (call # None /\ call.fn = "calculate_team_features" /\ form[1] # None)
    => IF call.venue_eligible < MIN_VENUE_MATCHES
       THEN /\ form[1].win_pct_venue_l5 = form[1].win_pct_l5
            /\ form[1].avg_goals_for_venue_l5 = form[1].avg_goals_for_l5
       ELSE form[1].win_pct_venue_l5 =
                Rat(Cardinality(WonByRole({RowOf(id) : id \in call.venue_used},
                                          call.team_id)),
                    Cardinality(call.venue_used))

\* C24: the tasks attempted are always the first ones of fetch fixtures,
\* generate predictions, track accuracy, database maintenance, in this order
\* and each once; the process exits only after attempting all four, however
\* each of them ended; it does exit; and its exit status is 0 exactly when all
\* four tasks returned success.
C24_DailyPipeline ==
    /\ [](/\ Len(daily.attempted) <= 4
          /\ daily.attempted =
                 SubSeq(<<"Fetch Upcoming Fixtures", "Generate Predictions",
                          "Track Prediction Accuracy", "Database Maintenance">>,
                        1, Len(daily.attempted))
          /\ Len(daily.returned) = Len(daily.attempted))
    /\ [](daily.exit_status # NULL =>
              /\ Len(daily.attempted) = 4
              /\ daily.exit_status \in {0, 1}
              /\ daily.exit_status = 0 <=>
                     \A k \in 1..4 : daily.returned[k])
    /\ <>(daily.exit_status # NULL)

\* the pipeline has exited with status 1 after its first task timed out, its
\* second raised and its last two succeeded
C24_Witness ==
    /\ daily.exit_status = 1
    /\ daily.outcomes =
           <<"TimeoutExpired", "Exception", "returncode_0", "returncode_0">>
    /\ daily.success_count = 2

\* C25: prediction_accuracy never holds two records of one fixture, and a record
\* once written stays in the table as it was written: no step of a tracker run
\* changes or removes it.
C25_AccuracyRecordedOnce ==
    /\ [](\A a \in prediction_accuracy : \A b \in prediction_accuracy :
              a.fixture_id = b.fixture_id => a = b)
    /\ [][\A a \in prediction_accuracy : a \in prediction_accuracy']_vars

\* the tracker has attempted a fixture that already had its record, with another
\* predicted label and another actual result than the ones recorded
C25_Witness ==
    /\ tracker.last # None
    /\ tracker.last.result # None
    /\ tracker.last.tracked_before
    /\ \E pa \in prediction_accuracy :
          /\ pa.fixture_id = tracker.last.prediction.fixture_id
          /\ pa.predicted_result # tracker.last.prediction.predicted_result
          /\ pa.actual_result # tracker.last.result.actual_result

\* whether the API answered with a match that is over and has both its scores
FinishedWithScores(response) ==
    /\ response.kind = "fixture"
    /\ response.status \in {"FT", "AET", "PEN"}
    /\ response.home # NULL
    /\ response.away # NULL

\* C26: an iteration of the tracker writes a record only for an answer that
\* reports the match finished (FT, AET or PEN) with both scores; for any other
\* answer it writes nothing, adds one to the skipped count, and a fixture that
\* had no record still has none.
C26_OnlyFinishedMatchesTracked ==
    tracker.last # None =>
        /\ tracker.last.written => FinishedWithScores(tracker.last.response)
        /\ ~FinishedWithScores(tracker.last.response) =>
              /\ ~tracker.last.written
              /\ tracker.failed_count = tracker.last.failed_before + 1
              /\ ~tracker.last.tracked_before =>
                    /\ ~\E pa \in prediction_accuracy :
                           pa.fixture_id = tracker.last.prediction.fixture_id
                    /\ tracker.last.prediction
                           \in UntrackedRows(predictions, fixtures_table,
                                             prediction_accuracy, today)

\* the tracker has skipped a match that is over but whose away score is missing,
\* after writing the record of another fixture in the same run
C26_Witness ==
    /\ tracker.last # None
    /\ tracker.last.response.kind = "fixture"
    /\ tracker.last.response.status = "FT"
    /\ tracker.last.response.home # NULL
    /\ tracker.last.response.away = NULL
    /\ ~tracker.last.written
    /\ tracker.failed_count = 1
    /\ tracker.updated_count = 1
    /\ prediction_accuracy # {}

\* C27: when a run of the tracker is over, updated_count is the number of
\* records the run added to prediction_accuracy.
C27_UpdatedCountIsRecordsAdded ==
    tracker.phase = "finished" => tracker.updated_count = tracker.added

\* whether the rows r and n are about the same fixture on the same day
SameKey(r, n) ==
    r.fixture_id = n.fixture_id /\ r.prediction_date = n.prediction_date

\* C28: the predictions table never holds two rows of one fixture and day; after
\* a call every row of the frame saved is in the table with the values of that
\* call; a call leaves the rows of other fixtures and days as they are; and a
\* call with the frame and the date of the call before it leaves the table
\* unchanged.
C28_SaveIsIdempotent ==
    /\ [](\A r \in predictions : \A n \in predictions : SameKey(r, n) => r = n)
    /\ [][call' # call =>
              /\ \A j \in 1..Len(call'.results) :
                    (call'.results[j] @@ [prediction_date |-> call'.prediction_date])
                        \in predictions'
              /\ \A r \in predictions :
                    (\A j \in 1..Len(call'.results) :
                        ~(/\ r.fixture_id = call'.results[j].fixture_id
                          /\ r.prediction_date = call'.prediction_date))
                    => r \in predictions']_vars
    /\ [][(/\ call # None
           /\ call' # None
           /\ call'.results = call.results
           /\ call'.prediction_date = call.prediction_date)
          => predictions' = predictions]_vars

\* a call has replaced the row of a fixture saved earlier the same day by a row
\* of other values, while a row of the day before is in the table
C28_Witness ==
    /\ call # None
    /\ \E old \in call.before : \E n \in predictions :
          /\ SameKey(old, n)
          /\ old # n
          /\ old \notin predictions
    /\ \E r \in predictions : r.prediction_date < call.prediction_date

\* the fixture of the list handed over that has this id, if there is one
Reinserted(id) ==
    {call.fixtures[j] : j \in {k \in 1..Len(call.fixtures) :
                                  call.fixtures[k].fixture_id = id}}

\* C29: after insert_fixtures_to_db every fixture that was stored before is
\* still stored once, with its home_goals, away_goals, result, teams and season
\* (and its statistics) as before; its date and status are those of the list
\* if the list holds it, and as before otherwise.
C29_ReinsertKeepsResult ==
    call # None =>
        \A i \in 1..Len(call.before) :
            LET old == call.before[i]
                now == {fixtures_table[k] : k \in {j \in 1..Len(fixtures_table) :
                            fixtures_table[j].fixture_id = old.fixture_id}}
            IN  /\ Cardinality(now) = 1
                /\ \A new \in now :
                      /\ \A col \in DOMAIN old \ {"date", "status"} :
                            new[col] = old[col]
                      /\ \A fixture \in Reinserted(old.fixture_id) :
                            new.date = fixture.date /\ new.status = fixture.status
                      /\ Reinserted(old.fixture_id) = {} => new = old

\* a played fixture has been inserted again with another date, other teams and
\* the status NS, and the table still holds its result and goals
C29_Witness ==
    /\ call # None
    /\ \E i \in 1..Len(call.before) :
          /\ call.before[i].result # NO_RESULT
          /\ \E fixture \in Reinserted(call.before[i].fixture_id) :
                /\ fixture.date # call.before[i].date
                /\ fixture.home_team_id # call.before[i].home_team_id
                /\ RowOf(fixture.fixture_id).date = fixture.date
                /\ RowOf(fixture.fixture_id).status = "NS"
                /\ RowOf(fixture.fixture_id).result = call.before[i].result
                /\ RowOf(fixture.fixture_id).home_goals # NULL

====
